---- MODULE Spec2Model ----
(***************************************************************************)
(* A model of the mesh-reach messaging core:                               *)
(*   - MeshProtocol.ts       packet construction, digest, relay decision   *)
(*   - MultiTransportMesh.ts routing engine (seen-set, ACKs, retries)      *)
(*   - GlobalMeshRelay.ts    rendezvous relay receive path, transport      *)
(*                           selector                                      *)
(*   - LocalMeshService.ts   BroadcastChannel transport and durable drain  *)
(*   - UnifiedMeshService.ts delivery pipeline and durable store           *)
(* Every await of the source is a point where another handler may run.     *)
(***************************************************************************)
EXTENDS Integers, Sequences, FiniteSets, Bags, TLC

(***************************************************************************)
(* MeshProtocol.ts                                                         *)
(***************************************************************************)

MAX_TTL == 10
MAX_MESSAGE_SIZE == 512

\* Text is a sequence of UTF-16 code units.
\* The code units of the device ids and packet types that occur as field
\* values.  Packet ids and payloads are kept as code units throughout.
Chars(s) ==
    CASE s = "A" -> <<65>>
      [] s = "B" -> <<66>>
      [] s = "C" -> <<67>>
      [] s = "D" -> <<68>>
      [] s = "E" -> <<69>>
      [] s = "F" -> <<70>>
      [] s = "G" -> <<71>>
      [] s = "H" -> <<72>>
      [] s = "I" -> <<73>>
      [] s = "J" -> <<74>>
      [] s = "K" -> <<75>>
      [] s = "*" -> <<42>>
      [] s = "MESSAGE" -> <<77, 69, 83, 83, 65, 71, 69>>
      [] s = "ACK" -> <<65, 67, 75>>
      [] s = "PING" -> <<80, 73, 78, 71>>
      [] s = "ANNOUNCE" -> <<65, 78, 78, 79, 85, 78, 67, 69>>

\* String(n) of a non-negative integer: its decimal digits.
RECURSIVE Digits(_)
Digits(n) ==
    IF n < 10 THEN <<48 + n>> ELSE Digits(n \div 10) \o <<48 + (n % 10)>>

\* The elements of an array of strings, quoted and separated by commas.
RECURSIVE JoinQuoted(_)
JoinQuoted(hops) ==
    IF hops = <<>> THEN <<>>
    ELSE <<34>> \o Chars(Head(hops)) \o <<34>>
         \o (IF Len(hops) > 1 THEN <<44>> ELSE <<>>)
         \o JoinQuoted(Tail(hops))

\* JSON.stringify of the characters of a string (QuoteJSONString without the
\* enclosing quotes), from index i: the quote, the backslash and the control
\* characters are escaped, and so is a surrogate that is not half of a pair.
\* Left as they are.
Escape_raw(str, i) == SubSeq(str, i, Len(str))

Escape(str, i) ==
    LET hex(d) == IF d < 10 THEN 48 + d ELSE 87 + d
        high(k) == k >= 1 /\ k <= Len(str)
                   /\ str[k] >= 55296 /\ str[k] <= 56319
        low(k) == k >= 1 /\ k <= Len(str)
                  /\ str[k] >= 56320 /\ str[k] <= 57343
        \* what is written for the code unit at k
        unit(k) ==
            LET c == str[k]
                u4 == <<92, 117, hex(c \div 4096), hex((c \div 256) % 16),
                        hex((c \div 16) % 16), hex(c % 16)>>
            IN  IF (high(k) /\ low(k + 1)) \/ (low(k) /\ high(k - 1) /\ k > i)
                THEN <<c>>
                ELSE CASE c = 34 -> <<92, 34>>
                       [] c = 92 -> <<92, 92>>
                       [] c = 8 -> <<92, 98>>
                       [] c = 9 -> <<92, 116>>
                       [] c = 10 -> <<92, 110>>
                       [] c = 12 -> <<92, 102>>
                       [] c = 13 -> <<92, 114>>
                       [] c < 32 /\ c \notin {8, 9, 10, 12, 13} -> u4
                       [] c >= 55296 /\ c <= 57343 -> u4
                       [] OTHER -> <<c>>
        RECURSIVE range(_, _)
        range(from, to) ==
            IF from > to THEN <<>>
            ELSE IF from = to THEN unit(from)
            ELSE range(from, (from + to) \div 2)
                 \o range((from + to) \div 2 + 1, to)
    IN  range(i, Len(str))

\* JSON.stringify of a packet object.  An object that has no signature key
\* (Omit<MeshPacket,'signature'>) carries signature = <<>> here.  The K_
\* fragments are the punctuation JSON.stringify writes around the fields, in
\* the insertion order of createPacket.
Stringify(p) ==
    LET K_id == <<123, 34, 105, 100, 34, 58, 34>>
        K_type == <<34, 44, 34, 116, 121, 112, 101, 34, 58, 34>>
        K_senderId == <<34, 44, 34, 115, 101, 110, 100, 101, 114, 73, 100, 34, 58, 34>>
        K_originalSenderId ==
            <<34, 44, 34, 111, 114, 105, 103, 105, 110, 97, 108, 83, 101, 110, 100,
              101, 114, 73, 100, 34, 58, 34>>
        K_targetId == <<34, 44, 34, 116, 97, 114, 103, 101, 116, 73, 100, 34, 58, 34>>
        K_payload == <<34, 44, 34, 112, 97, 121, 108, 111, 97, 100, 34, 58, 34>>
        K_timestamp ==
            <<34, 44, 34, 116, 105, 109, 101, 115, 116, 97, 109, 112, 34, 58>>
        K_ttl == <<44, 34, 116, 116, 108, 34, 58>>
        K_hops == <<44, 34, 104, 111, 112, 115, 34, 58, 91>>
        K_hopsEnd == <<93>>
        K_signature ==
            <<44, 34, 115, 105, 103, 110, 97, 116, 117, 114, 101, 34, 58, 34>>
        K_signatureEnd == <<34>>
        K_close == <<125>>
    IN  K_id \o p.id
        \o K_type \o Chars(p.type)
        \o K_senderId \o Chars(p.senderId)
        \o K_originalSenderId \o Chars(p.originalSenderId)
        \o K_targetId \o Chars(p.targetId)
        \o K_payload \o Escape(p.payload, 1)
        \o K_timestamp \o Digits(p.timestamp)
        \o K_ttl \o Digits(p.ttl)
        \o K_hops \o JoinQuoted(p.hops) \o K_hopsEnd
        \o (IF p.signature = <<>> THEN <<>>
            ELSE K_signature \o p.signature \o K_signatureEnd)
        \o K_close

\* One round of hash = ((hash << 5) - hash) + char; hash = hash & hash,
\* on a 32-bit word kept as two 16-bit halves <<hi, lo>>.
HashStep(h, c) ==
    LET lo == 31 * h[2] + c
        hi == 31 * h[1] + (lo \div 65536)
    IN  <<hi % 65536, lo % 65536>>

\* Four and sixteen rounds of the loop over str, from index i.
HashStep4(h, str, i) ==
    HashStep(HashStep(HashStep(HashStep(h, str[i]), str[i + 1]), str[i + 2]),
             str[i + 3])

HashStep16(h, str, i) ==
    HashStep4(HashStep4(HashStep4(HashStep4(h, str, i), str, i + 4),
                        str, i + 8), str, i + 12)

\* for (let i = 0; i < str.length; i++) ..., sixteen rounds at a time while
\* that many characters remain.
RECURSIVE HashFold(_, _, _)
HashFold(h, str, i) ==
    IF i > Len(str) THEN h
    ELSE LET wide == i + 15 <= Len(str)
             next == IF wide THEN HashStep16(h, str, i)
                     ELSE HashStep(h, str[i])
         IN  \* the test makes TLC compute next before it recurses
             IF next[1] >= 0 THEN HashFold(next, str, IF wide THEN i + 16 ELSE i + 1)
             ELSE next

\* Math.abs of the signed 32-bit word <<hi, lo>>.
Abs32(h) ==
    IF h[1] < 32768 THEN h
    ELSE IF h[2] = 0 THEN <<65536 - h[1], 0>>
    ELSE <<65535 - h[1], 65536 - h[2]>>


\* toString(16).padStart(8, '0')
Hex8(h) ==
    LET HexChar(d) == IF d < 10 THEN 48 + d ELSE 87 + d
        Hex4(n) ==
            <<HexChar(n \div 4096), HexChar((n \div 256) % 16),
              HexChar((n \div 16) % 16), HexChar(n % 16)>>
    IN  Hex4(h[1]) \o Hex4(h[2])

hashPacket(p) == Hex8(Abs32(HashFold(<<0, 0>>, Stringify(p), 1)))

WithoutSignature(p) == [p EXCEPT !.signature = <<>>]

\* createPacket with an empty hop list.
createPacket_noHops(id, now, type, senderId, targetId, payload) ==
    LET packet == [id |-> id, type |-> type, senderId |-> senderId,
                   originalSenderId |-> senderId, targetId |-> targetId,
                   payload |-> payload, timestamp |-> now, ttl |-> MAX_TTL,
                   hops |-> <<>>, signature |-> <<>>]
    IN  [packet EXCEPT !.signature = hashPacket(packet)]

createPacket(id, now, type, senderId, targetId, payload) ==
    LET packet == [id |-> id, type |-> type, senderId |-> senderId,
                   originalSenderId |-> senderId, targetId |-> targetId,
                   payload |-> payload, timestamp |-> now, ttl |-> MAX_TTL,
                   hops |-> <<senderId>>, signature |-> <<>>]
    IN  [packet EXCEPT !.signature = hashPacket(packet)]

\* verifyPacket accepting every packet.
verifyPacket_any(p) == TRUE

verifyPacket(p) == hashPacket(WithoutSignature(p)) = p.signature

InHops(hops, n) == \E i \in 1..Len(hops) : hops[i] = n

\* shouldRelay without its test of the hop list.
shouldRelay_anyHops(p, localDeviceId) ==
    /\ ~(p.ttl <= 0)
    /\ ~(p.originalSenderId = localDeviceId)
    /\ p.targetId # localDeviceId

\* shouldRelay without its ttl test.
shouldRelay_anyTtl(p, localDeviceId) ==
    /\ ~(p.originalSenderId = localDeviceId)
    /\ ~InHops(p.hops, localDeviceId)
    /\ p.targetId # localDeviceId

shouldRelay(p, localDeviceId) ==
    /\ ~(p.ttl <= 0)
    /\ ~(p.originalSenderId = localDeviceId)
    /\ ~InHops(p.hops, localDeviceId)
    /\ p.targetId # localDeviceId

\* prepareForRelay without the countdown of ttl.
prepareForRelay_sameTtl(p, relayerId) ==
    LET newPacket == [p EXCEPT !.senderId = relayerId,
                               !.hops = Append(p.hops, relayerId)]
    IN  [newPacket EXCEPT !.signature = hashPacket(newPacket)]

\* newPacket = {...packet, senderId, ttl, hops} keeps every key of packet,
\* the old signature among them, and that object is what hashPacket digests.
prepareForRelay(p, relayerId) ==
    LET newPacket == [p EXCEPT !.senderId = relayerId, !.ttl = p.ttl - 1,
                               !.hops = Append(p.hops, relayerId)]
    IN  [newPacket EXCEPT !.signature = hashPacket(newPacket)]

\* `${Date.now()}-${Math.random().toString(36).substr(2, 9)}`: the clock value,
\* a dash and a random suffix (one letter here; the clock alone is unique).
PacketId(now) == Digits(now) \o <<45, 97>>

(***************************************************************************)
(* MultiTransportMesh.ts                                                   *)
(***************************************************************************)

Nodes == {"A", "B", "C"}

\* "hello"
Hello == <<104, 101, 108, 108, 111>>

MaxRetries == 20
ProcessedHigh == 2000
ProcessedKeep == 1000

\* Bounds of the exploration.
MaxSends == 1
MaxHeartbeats == 1
MaxInject == 3
SeenCap == 2001
OtherBatch == 1000

VARIABLES
    peers,                  \* Map peerId -> connection, in insertion order
    processedPackets,       \* Set of packet ids, in insertion order
    pendingAcks,            \* Map id -> {packet, retries, timer}, in order
    pendingRetries,         \* retries field of the pending objects, by id
    messageQueue,           \* Map id -> packet
    tasks,                  \* async calls suspended at an await
    net,                    \* packets handed to a connection, not yet received
    nextId,                 \* Date.now()
    sent,                   \* packets built by sendMessage
    onMessageReceived,      \* events.onMessageReceived calls, in order
    onMessageStatusChanged, \* events.onMessageStatusChanged calls, in order
    relayed,                \* packets passed to prepareForRelay
    dropped,                \* packets handleReceivedPacket returned on early
    evicted,                \* ids cleanupOldPackets removed
    injected,               \* packets put on a link by the environment
    acks,                   \* ACK packets sendAck built, per device, in order
    discoveredDevices,      \* Map id -> device: its keys
    heartbeatInterval       \* the 5 s interval is set

meshVars ==
    <<peers, processedPackets, pendingAcks, pendingRetries, messageQueue,
      tasks, net, nextId, sent, onMessageReceived, onMessageStatusChanged,
      relayed, dropped, evicted, injected, acks, discoveredDevices,
      heartbeatInterval>>

(***************************************************************************)
(* State of the delivery pipeline of one device (UnifiedMeshService,       *)
(* OfflineStorageService, SmartTransportSelector, LocalMeshService,        *)
(* GlobalMeshRelay) and of its surroundings.                               *)
(***************************************************************************)
VARIABLES
    db,                   \* OfflineStorageService.db is open
    messages,             \* object store 'messages': id -> record
    pendingMessages,      \* object store 'pendingMessages': id -> record
    stored,               \* puts to 'messages', in order
    idb,                  \* continuations waiting for a request, per store
    http,                 \* continuations waiting for a relay response
    metrics,              \* SmartTransportSelector.metrics
    peerTransports,       \* SmartTransportSelector.peerTransports
    devices,              \* UnifiedMeshService.devices: id -> connectionType
    globalDevices,        \* GlobalMeshRelayService.globalDevices
    broadcastChannel,     \* LocalMeshService.broadcastChannel is set
    lmPendingAcks,        \* LocalMeshService.pendingAcks: id -> timer
    lmPeer,               \* LocalMeshService.peers entry of the receiver
    retrying,             \* LocalMeshService.retryPendingMessages calls running
    bc,                   \* BroadcastChannel events not yet handled
    remoteProcessed,      \* processedMessages of the receiving device
    remoteReceived,       \* onMessageReceived calls at the receiving device
    remoteStore,          \* ids in the 'messages' store of the receiving device
    webrtcPeers,          \* webRTCMesh.getConnectedPeers()
    isOnline,             \* GlobalMeshRelayService.isOnline
    mesh_messages,        \* relay table, rows in created_at order
    processedMessageIds,  \* GlobalMeshRelayService.processedMessageIds
    insertEvents,         \* realtime INSERT events not yet handled
    messageChannel,       \* the realtime subscription is set up
    umInit,               \* last completed step of UnifiedMeshService.initialize
    statusEvents,         \* UnifiedMeshEvents.onMessageStatusChanged calls
    receivedEvents,       \* UnifiedMeshEvents.onMessageReceived calls
    deliverTimers,        \* armed 1500 ms timers of sendMessage
    acked,                \* ids an acknowledgement has arrived for
    handed,               \* ids of sends a transport channel accepted
    returned,             \* results of sendMessage calls at their return
    nextMsgId,            \* Date.now() of the id generators
    budget,               \* calls and environment steps left, by kind
    Preferences,          \* the preference store: value of 'mesh_device_id'
    localDeviceId,        \* UnifiedMeshService.localDeviceId
    isInitialized,        \* UnifiedMeshService.isInitialized
    messageParties,       \* senderId, receiverId of the 'messages' records
    initializeReturned,   \* deviceId of the results of initialize(), in order
    storedBeforeCleanup,  \* ids in 'messages' at the calls of cleanup()
    cleanups,             \* calls of cleanup()
    identityErrors,       \* initialize() results given though the identity
                          \* store threw: their places in initializeReturned
    lineSent,             \* the packet the first device of the line built
    lineNet,              \* packets handed to a connection of the line
    lineSeen,             \* processedPackets of the devices of the line
    lineReceived,         \* devices of the line that emitted onMessageReceived
    codecStage,           \* how far a packet has gone through encode and decode
    codecPacket,          \* the packet given to encodePacket
    codecBuffer,          \* the bytes encodePacket returned
    codecDecoded,         \* what decodePacket returned for them
    relayArgs,            \* the arguments of a call of shouldRelay
    relayResult,          \* what the call returned
    registry,             \* the device records of the services, in full
    recorded,             \* the calls of recordSuccess and recordFailure
    presence,             \* LocalMeshService instances on one BroadcastChannel
    scan,                 \* the scan of UnifiedMeshServiceImpl
    emission,             \* the sends of concurrent sendMessage calls
    upload                \* syncPendingMessages and the relay records

pipeVars ==
    <<db, messages, pendingMessages, stored, idb, http, metrics,
      peerTransports, devices, globalDevices, broadcastChannel, lmPendingAcks,
      lmPeer, retrying, bc, remoteProcessed, remoteReceived, remoteStore,
      webrtcPeers, isOnline,
      mesh_messages, processedMessageIds, insertEvents, messageChannel, umInit,
      statusEvents, receivedEvents, deliverTimers, acked, handed, returned,
      nextMsgId, budget, Preferences, localDeviceId, isInitialized,
      messageParties, initializeReturned, storedBeforeCleanup, cleanups,
      identityErrors,
      lineSent, lineNet, lineSeen, lineReceived, codecStage, codecPacket,
      codecBuffer, codecDecoded, relayArgs, relayResult, registry,
      recorded, presence, scan, emission, upload>>

vars == <<meshVars, pipeVars>>

\* ---- processedPackets: runs of ids in insertion order.  A run is one
\* tracked id (n = 1) or n ids of other packets (id = <<>>).
RECURSIVE SeenSize(_)
SeenSize(s) == IF s = <<>> THEN 0 ELSE Head(s).n + SeenSize(Tail(s))

SeenHas(s, id) == \E i \in DOMAIN s : s[i].id = id

\* processedPackets.add left out.
SeenAdd_skipped(s, id) == s

SeenAdd(s, id) == Append(s, [id |-> id, n |-> 1])

SeenIds(s) == {s[i].id : i \in DOMAIN s} \ {<<>>}

SeenAddOthers(s, k) ==
    IF s # <<>> /\ s[Len(s)].id = <<>>
    THEN [s EXCEPT ![Len(s)].n = @ + k]
    ELSE Append(s, [id |-> <<>>, n |-> k])

\* arr.slice(-k)
RECURSIVE SliceLast(_, _)
SliceLast(s, k) ==
    IF k <= 0 \/ s = <<>> THEN <<>>
    ELSE LET last == s[Len(s)]
             front == SubSeq(s, 1, Len(s) - 1)
         IN  IF last.n >= k THEN <<[last EXCEPT !.n = k]>>
             ELSE Append(SliceLast(front, k - last.n), last)

cleanupOldPackets(s) ==
    IF SeenSize(s) > ProcessedHigh THEN SliceLast(s, ProcessedKeep) ELSE s

\* ---- Map helpers (entries carry their key in .id)
MapHas(m, id) == \E i \in DOMAIN m : m[i].id = id

MapSet(m, e) ==
    IF MapHas(m, e.id)
    THEN [i \in DOMAIN m |-> IF m[i].id = e.id THEN e ELSE m[i]]
    ELSE Append(m, e)

RemoveAt(m, i) == SubSeq(m, 1, i - 1) \o SubSeq(m, i + 1, Len(m))

IndexOf(m, id) == CHOOSE i \in DOMAIN m : m[i].id = id

\* ---- suspended calls
AddTask(b, t) == b (+) SetToBag({t})
DelTask(b, t) == b (-) SetToBag({t})

\* A Map iterator suspended at entry pos follows the entries when one at or
\* before pos is deleted.
ShiftIterators(b, i) ==
    BagOfAll(LAMBDA t : IF t.kind = "retryPendingMessages" /\ t.pos >= i
                        THEN [t EXCEPT !.pos = @ - 1] ELSE t, b)

\* broadcastPacket up to its first await: the data is handed to the first
\* peer's connection.
FirstSend(n, packet) ==
    IF peers[n] = <<>> THEN {}
    ELSE {[to |-> Head(peers[n]), from |-> n, packet |-> packet]}

\* The caller of broadcastPacket, suspended; todo are the peers the loop has
\* yet to reach.
Suspended(n, kind, packet, orig, pos) ==
    [kind |-> kind, packet |-> packet, orig |-> orig, pos |-> pos,
     todo |-> IF peers[n] = <<>> THEN <<>> ELSE Tail(peers[n])]

Chain == [n \in Nodes |->
            CASE n = "A" -> <<"B">> [] n = "B" -> <<"A", "C">>
              [] n = "C" -> <<"B">>]
Direct == [n \in Nodes |->
            CASE n = "A" -> <<"C">> [] n = "B" -> <<>> [] n = "C" -> <<"A">>]

MeshInit ==
    /\ peers \in {Chain, Direct}
    /\ processedPackets = [n \in Nodes |-> <<>>]
    /\ pendingAcks = [n \in Nodes |-> <<>>]
    /\ pendingRetries = [n \in Nodes |-> <<>>]
    /\ messageQueue = [n \in Nodes |-> {}]
    /\ tasks = [n \in Nodes |-> EmptyBag]
    /\ net = {}
    /\ nextId = 1
    /\ sent = <<>>
    /\ onMessageReceived = [n \in Nodes |-> <<>>]
    /\ onMessageStatusChanged = [n \in Nodes |-> <<>>]
    /\ relayed = [n \in Nodes |-> <<>>]
    /\ dropped = [n \in Nodes |-> {}]
    /\ evicted = [n \in Nodes |-> {}]
    /\ acks = [n \in Nodes |-> <<>>]
    /\ discoveredDevices = [n \in Nodes |-> {}]
    /\ heartbeatInterval = [n \in Nodes |-> TRUE]
    /\ injected = 0

\* ---- sendMessage, lines 400-430
\* const scheduleRetry = (retries) => { timer = setTimeout(...);
\*                                      pendingAcks.set(id, {packet, retries, timer}) }
scheduleRetry(m, packet) ==
    MapSet(m, [id |-> packet.id, packet |-> packet, timer |-> "armed"])

\* createPacket, messageQueue.set and broadcastPacket up to its first await.
sendMessage(n, receiverId, content) ==
    LET packet == createPacket(PacketId(nextId), nextId, "MESSAGE", n,
                               receiverId, content)
    IN  /\ Len(sent) < MaxSends
        /\ nextId' = nextId + 1
        /\ sent' = Append(sent, packet)
        /\ messageQueue' = [messageQueue EXCEPT ![n] = @ \cup {packet}]
        /\ net' = net \cup FirstSend(n, packet)
        /\ tasks' = [tasks EXCEPT ![n] =
                        AddTask(@, Suspended(n, "sendMessage", packet,
                                             packet, 0))]
        /\ UNCHANGED pipeVars
        /\ UNCHANGED <<peers, discoveredDevices, heartbeatInterval, acks, processedPackets, pendingAcks, pendingRetries,
                       onMessageReceived, onMessageStatusChanged, relayed,
                       dropped, evicted, injected>>

\* broadcastPacket resumes from an await and hands the data to the next peer.
BroadcastNext(n, t) ==
    /\ BagIn(t, tasks[n])
    /\ t.todo # <<>>
    /\ net' = net \cup {[to |-> Head(t.todo), from |-> n,
                         packet |-> t.packet]}
    /\ tasks' = [tasks EXCEPT ![n] =
                    AddTask(DelTask(@, t), [t EXCEPT !.todo = Tail(@)])]
    /\ UNCHANGED pipeVars
    /\ UNCHANGED <<peers, discoveredDevices, heartbeatInterval, acks, processedPackets, pendingAcks, pendingRetries,
                   messageQueue, nextId, sent, onMessageReceived,
                   onMessageStatusChanged, relayed, dropped, evicted,
                   injected>>

\* sendMessage resumes from `await this.broadcastPacket(packet)`:
\* scheduleRetry(0).
sendMessageDone(n, t) ==
    /\ BagIn(t, tasks[n])
    /\ t.kind = "sendMessage" /\ t.todo = <<>>
    /\ pendingAcks' = [pendingAcks EXCEPT ![n] = scheduleRetry(@, t.packet)]
    /\ pendingRetries' = [pendingRetries EXCEPT ![n] = (t.packet.id :> 0) @@ @]
    /\ tasks' = [tasks EXCEPT ![n] = DelTask(@, t)]
    /\ UNCHANGED pipeVars
    /\ UNCHANGED <<peers, discoveredDevices, heartbeatInterval, acks, processedPackets, messageQueue, net, nextId, sent,
                   onMessageReceived, onMessageStatusChanged, relayed,
                   dropped, evicted, injected>>

\* The setTimeout callback of scheduleRetry, lines 413-420, up to the first
\* await of broadcastPacket.
timerFired(n, i) ==
    LET e == pendingAcks[n][i]
        r == pendingRetries[n][e.id]
    IN  /\ i \in DOMAIN pendingAcks[n]
        /\ e.timer = "armed"
        /\ pendingAcks' = [pendingAcks EXCEPT ![n][i].timer = "fired"]
        /\ IF r < MaxRetries
           THEN /\ pendingRetries' =
                       [pendingRetries EXCEPT ![n][e.id] = r + 1]
                /\ net' = net \cup FirstSend(n, e.packet)
                /\ tasks' = [tasks EXCEPT ![n] =
                                AddTask(@, Suspended(n, "timer", e.packet,
                                                     e.packet, 0))]
           ELSE UNCHANGED <<pendingRetries, net, tasks>>
        /\ UNCHANGED pipeVars
        /\ UNCHANGED <<peers, discoveredDevices, heartbeatInterval, acks, processedPackets, messageQueue, nextId, sent,
                       onMessageReceived, onMessageStatusChanged, relayed,
                       dropped, evicted, injected>>

\* The callback resumes from `await this.broadcastPacket(packet)`:
\* scheduleRetry(pending.retries), whatever became of the Map entry.
timerDone(n, t) ==
    /\ BagIn(t, tasks[n])
    /\ t.kind = "timer" /\ t.todo = <<>>
    /\ pendingAcks' = [pendingAcks EXCEPT ![n] = scheduleRetry(@, t.packet)]
    /\ tasks' = [tasks EXCEPT ![n] = DelTask(@, t)]
    /\ UNCHANGED pipeVars
    /\ UNCHANGED <<peers, discoveredDevices, heartbeatInterval, acks, processedPackets, pendingRetries, messageQueue, net,
                   nextId, sent, onMessageReceived, onMessageStatusChanged,
                   relayed, dropped, evicted, injected>>

\* ---- retryPendingMessages, lines 200-215, from entry i of the live Map
\* iteration up to the next await.  s holds the fields of node n.
\* The heartbeat without its retry pass.
retryPendingMessages_skipped(n, s, i) == s

RECURSIVE retryPendingMessages(_, _, _)
retryPendingMessages(n, s, i) ==
    IF i > Len(s.pendingAcks) THEN s
    ELSE LET e == s.pendingAcks[i]
         IN  IF s.pendingRetries[e.id] >= MaxRetries
             THEN retryPendingMessages(n,
                    [s EXCEPT
                       !.pendingAcks = RemoveAt(@, i),
                       !.messageQueue = {q \in @ : q.id # e.id},
                       !.status = Append(@, <<e.id, "failed">>),
                       !.tasks = ShiftIterators(@, i)], i)
             ELSE [s EXCEPT
                     !.pendingRetries = [@ EXCEPT ![e.id] = @ + 1],
                     !.net = @ \cup FirstSend(n, e.packet),
                     !.tasks = AddTask(@, Suspended(n, "retryPendingMessages",
                                                    e.packet, e.packet, i))]

NodeFields(n) ==
    [pendingAcks |-> pendingAcks[n], pendingRetries |-> pendingRetries[n],
     messageQueue |-> messageQueue[n], status |-> onMessageStatusChanged[n],
     tasks |-> tasks[n], net |-> net]

SetNodeFields(n, s) ==
    /\ pendingAcks' = [pendingAcks EXCEPT ![n] = s.pendingAcks]
    /\ pendingRetries' = [pendingRetries EXCEPT ![n] = s.pendingRetries]
    /\ messageQueue' = [messageQueue EXCEPT ![n] = s.messageQueue]
    /\ onMessageStatusChanged' =
           [onMessageStatusChanged EXCEPT ![n] = s.status]
    /\ tasks' = [tasks EXCEPT ![n] = s.tasks]
    /\ net' = s.net

RECURSIVE SumCopies(_, _)
SumCopies(b, S) ==
    IF S = {} THEN 0
    ELSE LET t == CHOOSE x \in S : TRUE
         IN  CopiesIn(t, b) + SumCopies(b, S \ {t})

\* Calls of retryPendingMessages that are suspended at node n.
HeartbeatTasks(n) ==
    SumCopies(tasks[n],
              {t \in BagToSet(tasks[n]) : t.kind = "retryPendingMessages"})

\* The 5 s heartbeat, lines 173-177: retryPendingMessages() runs to its first
\* await, then cleanupOldPackets().
heartbeat(n) ==
    LET kept == cleanupOldPackets(processedPackets[n])
    IN  /\ heartbeatInterval[n]
        /\ HeartbeatTasks(n) < MaxHeartbeats
        /\ SetNodeFields(n, retryPendingMessages(n, NodeFields(n), 1))
        /\ processedPackets' = [processedPackets EXCEPT ![n] = kept]
        /\ evicted' = [evicted EXCEPT ![n] =
                          @ \cup (SeenIds(processedPackets[n]) \ SeenIds(kept))]
        /\ UNCHANGED pipeVars
        /\ UNCHANGED <<peers, discoveredDevices, heartbeatInterval, acks, nextId, sent, onMessageReceived, relayed,
                       dropped, injected>>

\* retryPendingMessages resumes from its await and goes on to the next entry.
retryPendingMessagesResume(n, t) ==
    /\ BagIn(t, tasks[n])
    /\ t.kind = "retryPendingMessages" /\ t.todo = <<>>
    /\ SetNodeFields(n,
          retryPendingMessages(n,
              [NodeFields(n) EXCEPT !.tasks = DelTask(@, t)], t.pos + 1))
    /\ UNCHANGED pipeVars
    /\ UNCHANGED <<peers, discoveredDevices, heartbeatInterval, acks, processedPackets, nextId, sent, onMessageReceived,
                   relayed, dropped, evicted, injected>>

\* ---- handleAckPacket, lines 343-353, on the fields of node n
handleAckPacket(s, packet) ==
    LET originalId == packet.payload
    IN  IF MapHas(s.pendingAcks, originalId)
        THEN LET i == IndexOf(s.pendingAcks, originalId)
             IN  [s EXCEPT
                    !.pendingAcks = RemoveAt(@, i),
                    !.messageQueue = {q \in @ : q.id # originalId},
                    !.status = Append(@, <<originalId, "delivered">>),
                    !.tasks = ShiftIterators(@, i)]
        ELSE s

\* ---- the tail of handleReceivedPacket, lines 281-285, up to the first await
\* of broadcastPacket
relayIfNeeded(n, s, packet) ==
    IF shouldRelay(packet, n)
    THEN LET relayPacket == prepareForRelay(packet, n)
         IN  [s EXCEPT
                !.net = @ \cup FirstSend(n, relayPacket),
                !.tasks = AddTask(@, Suspended(n, "relay", relayPacket,
                                               packet, 0)),
                !.relayed = Append(@, [of |-> packet, as |-> relayPacket])]
         ELSE s

ReceiveFields(n) ==
    [pendingAcks |-> pendingAcks[n], messageQueue |-> messageQueue[n],
     status |-> onMessageStatusChanged[n], tasks |-> tasks[n], net |-> net,
     relayed |-> relayed[n]]

SetReceiveFields(n, s) ==
    /\ pendingAcks' = [pendingAcks EXCEPT ![n] = s.pendingAcks]
    /\ messageQueue' = [messageQueue EXCEPT ![n] = s.messageQueue]
    /\ onMessageStatusChanged' =
           [onMessageStatusChanged EXCEPT ![n] = s.status]
    /\ tasks' = [tasks EXCEPT ![n] = s.tasks]
    /\ net' = s.net
    /\ relayed' = [relayed EXCEPT ![n] = s.relayed]

ForUs(n, packet) == packet.targetId = n \/ packet.targetId = "*"

\* handleDiscoveryPacket and addDiscoveredDevice: a payload that JSON.parse
\* accepts ("{}" here) puts the original sender in the registry.
handleDiscoveryPacket(d, n, packet) ==
    IF packet.payload = <<123, 125>>
    THEN [d EXCEPT ![n] = @ \cup {packet.originalSenderId}]
    ELSE d

\* ---- handleReceivedPacket, lines 251-286, up to its first await that
\* leaves the handler: the notification of a message for this device, or the
\* broadcast of the relay copy.
handleReceivedPacket(n, link) ==
    LET packet == link.packet
        s == [ReceiveFields(n) EXCEPT !.net = @ \ {link}]
    IN  /\ link \in net
        /\ link.to = n
        /\ IF ~verifyPacket(packet)
           THEN /\ dropped' = [dropped EXCEPT ![n] =
                                  @ \cup {<<packet, "signature">>}]
                /\ net' = s.net
                /\ UNCHANGED <<processedPackets, pendingAcks, messageQueue,
                               onMessageStatusChanged, tasks, relayed>>
           ELSE IF SeenHas(processedPackets[n], packet.id)
           THEN /\ dropped' = [dropped EXCEPT ![n] =
                                  @ \cup {<<packet, "duplicate">>}]
                /\ net' = s.net
                /\ UNCHANGED <<processedPackets, pendingAcks, messageQueue,
                               onMessageStatusChanged, tasks, relayed>>
           ELSE /\ processedPackets' =
                       [processedPackets EXCEPT ![n] = SeenAdd(@, packet.id)]
                /\ UNCHANGED dropped
                /\ IF packet.type = "MESSAGE" /\ ForUs(n, packet)
                   THEN SetReceiveFields(n,
                          [s EXCEPT !.tasks =
                              AddTask(@, [kind |-> "showMessageNotification",
                                          packet |-> packet, orig |-> packet,
                                          pos |-> 0, todo |-> <<>>])])
                   ELSE IF packet.type = "ACK"
                   THEN SetReceiveFields(n,
                          relayIfNeeded(n, handleAckPacket(s, packet), packet))
                   ELSE SetReceiveFields(n, relayIfNeeded(n, s, packet))
        /\ discoveredDevices' =
               IF /\ packet.type = "ANNOUNCE"
                  /\ verifyPacket(packet)
                  /\ ~SeenHas(processedPackets[n], packet.id)
               THEN handleDiscoveryPacket(discoveredDevices, n, packet)
               ELSE discoveredDevices
        /\ UNCHANGED pipeVars
        /\ UNCHANGED <<peers, heartbeatInterval, acks, pendingRetries, nextId,
                       sent, onMessageReceived, evicted, injected>>

\* The ACK carries the payload of the message in place of its id.
sendAck_payload(n, originalPacket, now) ==
    createPacket(PacketId(now), now, "ACK", n,
                 originalPacket.originalSenderId, originalPacket.payload)

\* sendAck, lines 387-395: the packet it builds, at clock value now.
sendAck(n, originalPacket, now) ==
    createPacket(PacketId(now), now, "ACK", n,
                 originalPacket.originalSenderId, originalPacket.id)

\* handleMessagePacket resumes from `await this.showMessageNotification`:
\* onMessageReceived, then sendAck up to the first await of broadcastPacket.
handleMessagePacket(n, t) ==
    LET packet == t.orig
        message == [id |-> packet.id, content |-> packet.payload,
                    senderId |-> packet.originalSenderId, receiverId |-> n,
                    hops |-> packet.hops, status |-> "delivered"]
        ackPacket == sendAck(n, packet, nextId)
    IN  /\ BagIn(t, tasks[n])
        /\ t.kind = "showMessageNotification"
        /\ onMessageReceived' =
               [onMessageReceived EXCEPT ![n] = Append(@, message)]
        /\ nextId' = nextId + 1
        /\ net' = net \cup FirstSend(n, ackPacket)
        /\ tasks' = [tasks EXCEPT ![n] =
                        AddTask(DelTask(@, t),
                                Suspended(n, "sendAck", ackPacket, packet, 0))]
        /\ UNCHANGED pipeVars
        /\ acks' = [acks EXCEPT ![n] = Append(@, ackPacket)]
        /\ UNCHANGED <<peers, discoveredDevices, heartbeatInterval, processedPackets, pendingAcks, pendingRetries,
                       messageQueue, sent, onMessageStatusChanged, relayed,
                       dropped, evicted, injected>>

\* handleReceivedPacket resumes from `await this.handleMessagePacket` once
\* sendAck has returned, and reaches the relay decision.
sendAckDone(n, t) ==
    /\ BagIn(t, tasks[n])
    /\ t.kind = "sendAck" /\ t.todo = <<>>
    /\ SetReceiveFields(n,
          relayIfNeeded(n, [ReceiveFields(n) EXCEPT !.tasks = DelTask(@, t)],
                        t.orig))
    /\ UNCHANGED pipeVars
    /\ UNCHANGED <<peers, discoveredDevices, heartbeatInterval, acks, processedPackets, pendingRetries, nextId, sent,
                   onMessageReceived, dropped, evicted, injected>>

\* handleReceivedPacket resumes from the broadcast of the relay copy and
\* returns.
relayDone(n, t) ==
    /\ BagIn(t, tasks[n])
    /\ t.kind = "relay" /\ t.todo = <<>>
    /\ tasks' = [tasks EXCEPT ![n] = DelTask(@, t)]
    /\ UNCHANGED pipeVars
    /\ UNCHANGED <<peers, discoveredDevices, heartbeatInterval, acks, processedPackets, pendingAcks, pendingRetries,
                   messageQueue, net, nextId, sent, onMessageReceived,
                   onMessageStatusChanged, relayed, dropped, evicted,
                   injected>>

\* ---- cleanup, lines 530-546: clearInterval, clearTimeout of every pending
\* timer, pendingAcks.clear(), peers.clear(), discoveredDevices.clear().  It
\* has no await.  The loops of broadcastPacket that are suspended iterate the
\* peers Map itself, so after clear() they have no entry left to visit.
cleanup(n) ==
    /\ heartbeatInterval[n]
    /\ heartbeatInterval' = [heartbeatInterval EXCEPT ![n] = FALSE]
    /\ pendingAcks' = [pendingAcks EXCEPT ![n] = <<>>]
    /\ peers' = [peers EXCEPT ![n] = <<>>]
    /\ discoveredDevices' = [discoveredDevices EXCEPT ![n] = {}]
    /\ tasks' = [tasks EXCEPT ![n] =
                    BagOfAll(LAMBDA t : [t EXCEPT !.todo = <<>>], @)]
    /\ UNCHANGED pipeVars
    /\ UNCHANGED <<acks, processedPackets, pendingRetries, messageQueue, net,
                   nextId, sent, onMessageReceived, onMessageStatusChanged,
                   relayed, dropped, evicted, injected>>

\* ---- the environment of one node
\* Packets a neighbour may put on the link to node n: a message for n, a
\* message for everyone, a message for a third device, and a forged copy.
Foreign(n) ==
    LET from == CHOOSE m \in Nodes : m # n /\ InHops(peers[n], m)
        third == CHOOSE m \in Nodes : m # n /\ m # from
        forMe == createPacket(<<48, 45, 120>>, 0, "MESSAGE", from, n, Hello)
        forAll == createPacket(<<48, 45, 121>>, 0, "MESSAGE", from, "*", Hello)
        forThird ==
            createPacket(<<48, 45, 122>>, 0, "MESSAGE", from, third, Hello)
    IN  {[to |-> n, from |-> from, packet |-> q] :
            q \in {forMe, forAll, forThird,
                   [forMe EXCEPT !.payload = <<104, 105>>]}}

inject(n) ==
    /\ peers[n] # <<>>
    /\ injected < MaxInject
    /\ \E link \in Foreign(n) :
          /\ link \notin net
          /\ net' = net \cup {link}
    /\ injected' = injected + 1
    /\ UNCHANGED pipeVars
    /\ UNCHANGED <<peers, discoveredDevices, heartbeatInterval, acks, processedPackets, pendingAcks, pendingRetries,
                   messageQueue, tasks, nextId, sent, onMessageReceived,
                   onMessageStatusChanged, relayed, dropped, evicted>>

\* Packets that reach n with their hop budget used up: ttl = 0 and a
\* signature that matches, for n, for everyone and for a third device.
Exhausted(n) ==
    LET from == CHOOSE m \in Nodes : m # n /\ InHops(peers[n], m)
        third == CHOOSE m \in Nodes : m # n /\ m # from
        last(id, targetId) ==
            LET q == [createPacket(id, 0, "MESSAGE", third, targetId, Hello)
                        EXCEPT !.senderId = from, !.ttl = 0,
                               !.hops = <<third, from>>,
                               !.signature = <<>>]
            IN  [q EXCEPT !.signature = hashPacket(q)]
    IN  {[to |-> n, from |-> from, packet |-> q] :
            q \in {last(<<48, 45, 117>>, n), last(<<48, 45, 118>>, "*"),
                   last(<<48, 45, 119>>, third)}}

injectExhausted(n) ==
    /\ peers[n] # <<>>
    /\ injected < MaxInject
    /\ \E link \in Exhausted(n) :
          /\ link \notin net
          /\ net' = net \cup {link}
    /\ injected' = injected + 1
    /\ UNCHANGED pipeVars
    /\ UNCHANGED <<peers, discoveredDevices, heartbeatInterval, acks, processedPackets, pendingAcks, pendingRetries,
                   messageQueue, tasks, nextId, sent, onMessageReceived,
                   onMessageStatusChanged, relayed, dropped, evicted>>

\* Packets changed after they were signed: a message for n with another
\* payload, an ACK whose payload was replaced by the id of the message n has
\* sent, and an announcement for everyone under another sender's name.
Forged(n) ==
    LET from == CHOOSE m \in Nodes : m # n /\ InHops(peers[n], m)
        third == CHOOSE m \in Nodes : m # n /\ m # from
        message == createPacket(<<48, 45, 120>>, 0, "MESSAGE", from, n, Hello)
        ack == createPacket(<<48, 45, 123>>, 0, "ACK", from, n, <<120>>)
        announce ==
            createPacket(<<48, 45, 124>>, 0, "ANNOUNCE", from, "*", <<123, 125>>)
    IN  {[to |-> n, from |-> from, packet |-> q] :
            q \in {[message EXCEPT !.payload = <<104, 105>>],
                   [ack EXCEPT !.payload = PacketId(1)],
                   [announce EXCEPT !.originalSenderId = third]}}

injectForged(n) ==
    /\ peers[n] # <<>>
    /\ injected < MaxInject
    /\ \E link \in Forged(n) :
          /\ link \notin net
          /\ net' = net \cup {link}
    /\ injected' = injected + 1
    /\ UNCHANGED pipeVars
    /\ UNCHANGED <<peers, discoveredDevices, heartbeatInterval, acks, processedPackets,
                   pendingAcks, pendingRetries, messageQueue, tasks, nextId,
                   sent, onMessageReceived, onMessageStatusChanged, relayed,
                   dropped, evicted>>

\* Packets that reach n on their way, correctly signed: with ttl 1 for a
\* third device, with ttl 2 for everyone, with ttl 1 and n in the hop list,
\* with ttl 0, and with ttl 1 for n itself.
Travelled(n) ==
    LET from == CHOOSE m \in Nodes : m # n /\ InHops(peers[n], m)
        third == CHOOSE m \in Nodes : m # n /\ m # from
        onItsWay(id, targetId, ttl, hops) ==
            LET q == [createPacket(id, 0, "MESSAGE", from, targetId, Hello)
                        EXCEPT !.ttl = ttl, !.hops = hops,
                               !.signature = <<>>]
            IN  [q EXCEPT !.signature = hashPacket(q)]
    IN  {[to |-> n, from |-> from, packet |-> q] :
            q \in {onItsWay(<<48, 45, 112>>, third, 1, <<from>>),
                   onItsWay(<<48, 45, 113>>, "*", 2, <<from>>),
                   onItsWay(<<48, 45, 114>>, third, 1, <<from, n>>),
                   onItsWay(<<48, 45, 115>>, third, 0, <<from>>),
                   onItsWay(<<48, 45, 116>>, n, 1, <<from>>)}}

injectTravelled(n) ==
    /\ peers[n] # <<>>
    /\ injected < MaxInject
    /\ \E link \in Travelled(n) :
          /\ link \notin net
          /\ net' = net \cup {link}
    /\ injected' = injected + 1
    /\ UNCHANGED pipeVars
    /\ UNCHANGED <<peers, discoveredDevices, heartbeatInterval, acks,
                   processedPackets, pendingAcks, pendingRetries,
                   messageQueue, tasks, nextId, sent, onMessageReceived,
                   onMessageStatusChanged, relayed, dropped, evicted>>

\* Packets with a payload of MAX_MESSAGE_SIZE characters, correctly signed:
\* for n, for everyone and for a third device.
Oversize(n) ==
    LET from == CHOOSE m \in Nodes : m # n /\ InHops(peers[n], m)
        third == CHOOSE m \in Nodes : m # n /\ m # from
        long == [k \in 1..MAX_MESSAGE_SIZE |-> 120]
    IN  {[to |-> n, from |-> from,
          packet |-> createPacket(<<48, 45>> \o Chars(targetId), 0, "MESSAGE",
                                  from, targetId, long)] :
            targetId \in {n, "*", third}}

injectOversize(n) ==
    /\ peers[n] # <<>>
    /\ injected < MaxInject
    /\ \E link \in Oversize(n) :
          /\ link \notin net
          /\ net' = net \cup {link}
    /\ injected' = injected + 1
    /\ UNCHANGED pipeVars
    /\ UNCHANGED <<peers, discoveredDevices, heartbeatInterval, acks,
                   processedPackets, pendingAcks, pendingRetries,
                   messageQueue, tasks, nextId, sent, onMessageReceived,
                   onMessageStatusChanged, relayed, dropped, evicted>>

\* OtherBatch packets with ids of their own pass the duplicate check at n.
otherTraffic(n) ==
    /\ SeenSize(processedPackets[n]) + OtherBatch <= SeenCap
    /\ processedPackets' =
           [processedPackets EXCEPT ![n] = SeenAddOthers(@, OtherBatch)]
    /\ UNCHANGED pipeVars
    /\ UNCHANGED <<peers, discoveredDevices, heartbeatInterval, acks, pendingAcks, pendingRetries, messageQueue, tasks,
                   net, nextId, sent, onMessageReceived,
                   onMessageStatusChanged, relayed, dropped, evicted,
                   injected>>

(***************************************************************************)
(* The delivery pipeline of one device: OfflineStorageService and          *)
(* UnifiedMeshService (UnifiedMeshService.ts), SmartTransportSelector and  *)
(* GlobalMeshRelayService (GlobalMeshRelay.ts), LocalMeshService.          *)
(***************************************************************************)

\* The device itself, the device it writes to, a third device.
Local == "A"
Remote == "B"
Third == "C"

DurableMaxRetries == 30

\* Bounds of the exploration.
MaxUnifiedSends == 1
MaxRows == 2
MaxEnv == 2
MaxChecks == 2
MaxRetrying == 1

Min(a, b) == IF a < b THEN a ELSE b
Max(a, b) == IF a > b THEN a ELSE b

\* getMessage resolves null
NoMessage == [status |-> "none", synced |-> FALSE, to |-> "none"]

\* Every variable of the pipeline as one record, so that a handler that
\* runs through several calls can thread the state through them.
W0 ==
    [db |-> db, messages |-> messages, pendingMessages |-> pendingMessages,
     stored |-> stored, idb |-> idb, http |-> http, metrics |-> metrics,
     peerTransports |-> peerTransports, devices |-> devices,
     globalDevices |-> globalDevices, broadcastChannel |-> broadcastChannel,
     lmPendingAcks |-> lmPendingAcks, lmPeer |-> lmPeer,
     retrying |-> retrying, bc |-> bc, remoteProcessed |-> remoteProcessed,
     remoteReceived |-> remoteReceived, remoteStore |-> remoteStore,
     webrtcPeers |-> webrtcPeers, isOnline |-> isOnline,
     mesh_messages |-> mesh_messages,
     processedMessageIds |-> processedMessageIds,
     insertEvents |-> insertEvents, messageChannel |-> messageChannel,
     umInit |-> umInit, statusEvents |-> statusEvents,
     receivedEvents |-> receivedEvents, deliverTimers |-> deliverTimers,
     acked |-> acked, handed |-> handed, returned |-> returned,
     nextMsgId |-> nextMsgId, budget |-> budget,
     Preferences |-> Preferences, localDeviceId |-> localDeviceId,
     isInitialized |-> isInitialized, messageParties |-> messageParties,
     initializeReturned |-> initializeReturned,
     storedBeforeCleanup |-> storedBeforeCleanup, cleanups |-> cleanups,
     identityErrors |-> identityErrors,
     lineSent |-> lineSent, lineNet |-> lineNet, lineSeen |-> lineSeen,
     lineReceived |-> lineReceived, codecStage |-> codecStage,
     codecPacket |-> codecPacket, codecBuffer |-> codecBuffer,
     codecDecoded |-> codecDecoded, relayArgs |-> relayArgs,
     relayResult |-> relayResult, registry |-> registry,
     recorded |-> recorded, presence |-> presence, scan |-> scan,
     emission |-> emission, upload |-> upload]

SetW(w) ==
    /\ db' = w.db
    /\ messages' = w.messages
    /\ pendingMessages' = w.pendingMessages
    /\ stored' = w.stored
    /\ idb' = w.idb
    /\ http' = w.http
    /\ metrics' = w.metrics
    /\ peerTransports' = w.peerTransports
    /\ devices' = w.devices
    /\ globalDevices' = w.globalDevices
    /\ broadcastChannel' = w.broadcastChannel
    /\ lmPendingAcks' = w.lmPendingAcks
    /\ lmPeer' = w.lmPeer
    /\ retrying' = w.retrying
    /\ bc' = w.bc
    /\ remoteProcessed' = w.remoteProcessed
    /\ remoteReceived' = w.remoteReceived
    /\ remoteStore' = w.remoteStore
    /\ webrtcPeers' = w.webrtcPeers
    /\ isOnline' = w.isOnline
    /\ mesh_messages' = w.mesh_messages
    /\ processedMessageIds' = w.processedMessageIds
    /\ insertEvents' = w.insertEvents
    /\ messageChannel' = w.messageChannel
    /\ umInit' = w.umInit
    /\ statusEvents' = w.statusEvents
    /\ receivedEvents' = w.receivedEvents
    /\ deliverTimers' = w.deliverTimers
    /\ acked' = w.acked
    /\ handed' = w.handed
    /\ returned' = w.returned
    /\ nextMsgId' = w.nextMsgId
    /\ budget' = w.budget
    /\ Preferences' = w.Preferences
    /\ localDeviceId' = w.localDeviceId
    /\ isInitialized' = w.isInitialized
    /\ messageParties' = w.messageParties
    /\ initializeReturned' = w.initializeReturned
    /\ storedBeforeCleanup' = w.storedBeforeCleanup
    /\ cleanups' = w.cleanups
    /\ identityErrors' = w.identityErrors
    /\ lineSent' = w.lineSent
    /\ lineNet' = w.lineNet
    /\ lineSeen' = w.lineSeen
    /\ lineReceived' = w.lineReceived
    /\ codecStage' = w.codecStage
    /\ codecPacket' = w.codecPacket
    /\ codecBuffer' = w.codecBuffer
    /\ codecDecoded' = w.codecDecoded
    /\ relayArgs' = w.relayArgs
    /\ relayResult' = w.relayResult
    /\ registry' = w.registry
    /\ recorded' = w.recorded
    /\ presence' = w.presence
    /\ scan' = w.scan
    /\ emission' = w.emission
    /\ upload' = w.upload
    /\ UNCHANGED meshVars

\* The frame of an async function suspended at an await.
\*   fn, pc     the function and the await it is suspended at
\*   id, to     the message id and the receiver it works on
\*   lid        the id LocalMeshService or GlobalMeshRelay generated
\*   transport  the transport sendWithFallback is trying
\*   rest       the transports it has yet to try
\*   status     the status a row or an update carries
\*   found      the result of the getMessage it waits for
\*   rows       relay rows the loop has yet to visit
\*   items      pending-queue items the loop has yet to visit
\*   then       the frame of the caller that awaits this one, if any
\*   ok         the response reports no error
Cont(fn, pc, id, to) ==
    [fn |-> fn, pc |-> pc, id |-> id, to |-> to, lid |-> 0,
     transport |-> "none", rest |-> <<>>, status |-> "none",
     found |-> NoMessage, rows |-> <<>>, items |-> <<>>, then |-> <<>>,
     ok |-> TRUE]

RECURSIVE Run(_, _)

\* await of an IndexedDB request: the requests of one object store complete
\* in the order they were made, each in a task of its own.  Without a
\* database the storage call returns at once and the caller goes on in the
\* same task.
Await(w, store, c) ==
    IF w.db THEN [w EXCEPT !.idb[store] = Append(@, c)] ELSE Run(w, c)

\* await of a response of the relay
AwaitHttp(w, c) == [w EXCEPT !.http = @ \cup {c}]

\* return to the caller that awaits, in the same task
Return(w, then) == IF then = <<>> THEN w ELSE Run(w, then[1])

\* ---- OfflineStorageService (UnifiedMeshService.ts, from line 519)
\* saveMessage(message, synced = false): the put takes effect in the order
\* of the calls
saveMessage(w, id, to, status, synced) ==
    IF ~w.db THEN w
    ELSE [w EXCEPT
            !.messages = (id :> [status |-> status, synced |-> synced,
                                 to |-> to]) @@ @,
            !.stored = Append(@, <<id, status, to>>)]

getMessage(w, id) ==
    IF w.db /\ id \in DOMAIN w.messages THEN w.messages[id] ELSE NoMessage

addToPendingQueue(w, id, to) ==
    IF ~w.db THEN w
    ELSE [w EXCEPT !.pendingMessages =
                       (id :> [retries |-> 0, to |-> to]) @@ @]

\* get and put in one transaction
updatePendingRetry(w, id) ==
    IF w.db /\ id \in DOMAIN w.pendingMessages
    THEN [w EXCEPT !.pendingMessages[id].retries = @ + 1]
    ELSE w

removeFromPendingQueue(w, id) ==
    IF ~w.db THEN w
    ELSE [w EXCEPT !.pendingMessages =
                       [k \in DOMAIN @ \ {id} |-> @[k]]]

\* The keys of a store in key order.
RECURSIVE Ascending(_)
Ascending(S) ==
    IF S = {} THEN <<>>
    ELSE LET least == CHOOSE x \in S : \A y \in S : x <= y
         IN  <<least>> \o Ascending(S \ {least})

\* store.getAll()
getPendingMessages(w) ==
    IF ~w.db THEN <<>>
    ELSE LET keys == Ascending(DOMAIN w.pendingMessages)
         IN  [i \in DOMAIN keys |->
                [id |-> keys[i],
                 retries |-> w.pendingMessages[keys[i]].retries,
                 to |-> w.pendingMessages[keys[i]].to]]

\* updateMessageStatus up to `await this.getMessage(messageId)`
updateMessageStatus(w, id, status, then) ==
    IF ~w.db THEN Return(w, then)
    ELSE Await(w, "messages",
               [Cont("updateMessageStatus", "getMessage", id, "none") EXCEPT
                   !.status = status, !.found = getMessage(w, id),
                   !.then = then])

\* ... from there up to `await this.saveMessage(message)`
updateMessageStatus_got(w, c) ==
    IF c.found.status = "none" THEN Return(w, c.then)
    ELSE LET w1 == saveMessage(w, c.id, c.found.to, c.status, FALSE)
         IN  IF c.then = <<>> THEN w1
             ELSE Await(w1, "messages", [c EXCEPT !.pc = "saveMessage"])

updateMessageStatus_saved(w, c) == Return(w, c.then)

\* ---- SmartTransportSelector (GlobalMeshRelay.ts, from line 781)
\* The metrics Map in insertion order.
TransportTypes == <<"bluetooth", "wifi", "webrtc", "network">>

\* lastSuccess is kept as the class Date.now() - lastSuccess falls in:
\* "recent" (under 60 s), "aging" (under 300 s), "old" (the initial 0 too).
initializeMetrics ==
    [type \in {"bluetooth", "wifi", "webrtc", "network"} |->
        [latency |-> CASE type = "bluetooth" -> 50 [] type = "wifi" -> 20
                       [] type = "webrtc" -> 100 [] OTHER -> 200,
         reliability |-> 80, isAvailable |-> FALSE, deviceCount |-> 0,
         lastSuccess |-> "old", failureCount |-> 0]]

updateTransportAvailability(w, type, isAvailable, deviceCount) ==
    [w EXCEPT !.metrics[type].isAvailable = isAvailable,
              !.metrics[type].deviceCount = deviceCount]

recordSuccess(w, type) ==
    [w EXCEPT !.metrics[type].lastSuccess = "recent",
              !.metrics[type].failureCount = Max(0, @ - 1),
              !.metrics[type].reliability = Min(100, @ + 5)]

\* recordFailure without Math.max(0, ...).
recordFailure_unfloored(w, type) ==
    [w EXCEPT !.metrics[type].failureCount = @ + 1,
              !.metrics[type].reliability = @ - 10]

recordFailure(w, type) ==
    [w EXCEPT !.metrics[type].failureCount = @ + 1,
              !.metrics[type].reliability = Max(0, @ - 10)]

updatePeerTransports(w, peerId, transports) ==
    [w EXCEPT !.peerTransports = (peerId :> transports) @@ @]

Includes(s, x) == \E i \in DOMAIN s : s[i] = x

calculateScore(metric, type, peerSupports) ==
    IF ~metric.isAvailable THEN -1000
    ELSE metric.reliability
         + Max(0, 50 - metric.latency \div 10)
         + (IF Includes(peerSupports, type) THEN 50 ELSE 0)
         + (CASE metric.lastSuccess = "recent" -> 30
              [] metric.lastSuccess = "aging" -> 15
              [] OTHER -> 0)
         - metric.failureCount * 10
         + Min(20, metric.deviceCount * 2)
         + (CASE type = "bluetooth" -> 10 [] type = "wifi" -> 15
              [] type = "webrtc" -> 20 [] OTHER -> 5)

\* Array.prototype.sort with (a, b) => scoreB - scoreA: descending and stable
RECURSIVE SortByScore(_, _, _)
SortByScore(w, peerSupports, types) ==
    IF types = <<>> THEN <<>>
    ELSE LET a == Head(types)
             sorted == SortByScore(w, peerSupports, Tail(types))
             scoreA == calculateScore(w.metrics[a], a, peerSupports)
             before ==
                 Cardinality({i \in DOMAIN sorted :
                     calculateScore(w.metrics[sorted[i]], sorted[i],
                                    peerSupports) > scoreA})
         IN  SubSeq(sorted, 1, before) \o <<a>>
                 \o SubSeq(sorted, before + 1, Len(sorted))

selectTransportForPeer(w, peerId) ==
    LET peerSupports == IF peerId \in DOMAIN w.peerTransports
                        THEN w.peerTransports[peerId] ELSE <<>>
        isAvailable(type) == w.metrics[type].isAvailable
        availableTransports ==
            SortByScore(w, peerSupports, SelectSeq(TransportTypes, isAvailable))
    IN  IF availableTransports = <<>>
        THEN [primary |-> "unknown", fallbacks |-> <<>>]
        ELSE [primary |-> Head(availableTransports),
              fallbacks |-> SubSeq(availableTransports, 2,
                                   Min(3, Len(availableTransports)))]

\* ---- UnifiedMeshService.sendMessage, LocalMeshService.sendMessage,
\* GlobalMeshRelayService.sendMessage and sendWithFallback between them
emitStatus(w, id, status) ==
    [w EXCEPT !.statusEvents = Append(@, <<id, status>>)]

\* UnifiedMeshService.sendMessage from the return of sendWithFallback with
\* success up to `await offlineStorage.saveMessage(message)`
Unified_sendMessage_success(w, c) ==
    Await(saveMessage(w, c.id, c.to, "sent", FALSE), "messages",
          [c EXCEPT !.fn = "Unified_sendMessage", !.pc = "saveMessage sent"])

\* ... from there to the return: the event and the 1500 ms timer
Unified_sendMessage_sent(w, c) ==
    [emitStatus(w, c.id, "sent") EXCEPT
        !.deliverTimers = @ \cup {c.id},
        !.returned = @ \cup {[id |-> c.id, status |-> "sent",
                              pending |-> FALSE]}]

\* ... from the return of sendWithFallback without success up to
\* `await offlineStorage.saveMessage(message)`
Unified_sendMessage_failure(w, c) ==
    Await(saveMessage(w, c.id, c.to, "queued", FALSE), "messages",
          [c EXCEPT !.fn = "Unified_sendMessage", !.pc = "saveMessage queued"])

\* ... up to `await offlineStorage.addToPendingQueue(message)`
Unified_sendMessage_queued(w, c) ==
    Await(addToPendingQueue(w, c.id, c.to), "pendingMessages",
          [c EXCEPT !.pc = "addToPendingQueue"])

\* ... from there to the return
Unified_sendMessage_enqueued(w, c) ==
    [emitStatus(w, c.id, "queued") EXCEPT
        !.returned = @ \cup {[id |-> c.id, status |-> "queued",
                              pending |-> w.db /\ c.id \in DOMAIN
                                                      w.pendingMessages]}]

\* sendWithFallback, lines 957-959: the transport reported success
sendWithFallback_success(w, c) ==
    Unified_sendMessage_success(recordSuccess(w, c.transport), c)

\* LocalMeshService.sendMessageViaBroadcast
sendMessageViaBroadcast(w, id, to) ==
    IF w.broadcastChannel
    THEN [w EXCEPT !.bc = @ \cup {[type |-> "MESSAGE", id |-> id,
                                   from |-> Local, to |-> to]}]
    ELSE w

\* LocalMeshService.sendMessage up to `await saveMessage(message, false)`
LocalMesh_sendMessage(w, c) ==
    LET messageId == w.nextMsgId
    IN  Await(saveMessage([w EXCEPT !.nextMsgId = @ + 1], messageId, c.to,
                          "sending", FALSE),
              "messages",
              [c EXCEPT !.fn = "LocalMesh_sendMessage", !.pc = "saveMessage",
                        !.lid = messageId])

\* ... from there up to the next `await offlineStorage.saveMessage(message)`
LocalMesh_sendMessage_saved(w, c) ==
    IF w.broadcastChannel
    THEN Await(saveMessage([sendMessageViaBroadcast(w, c.lid, c.to) EXCEPT
                               !.handed = @ \cup {c.id}],
                           c.lid, c.to, "sent", FALSE),
               "messages", [c EXCEPT !.pc = "saveMessage sent"])
    ELSE Await(saveMessage(w, c.lid, c.to, "queued", FALSE), "messages",
               [c EXCEPT !.pc = "saveMessage queued"])

\* ... the timer and pendingAcks.set, and the return through sendViaTransport
LocalMesh_sendMessage_sent(w, c) ==
    sendWithFallback_success(
        [w EXCEPT !.lmPendingAcks =
                      (c.lid :> [timer |-> "armed", to |-> c.to]) @@ @], c)

\* ... up to `await offlineStorage.addToPendingQueue(message)`
LocalMesh_sendMessage_queued(w, c) ==
    Await(addToPendingQueue(w, c.lid, c.to), "pendingMessages",
          [c EXCEPT !.pc = "addToPendingQueue"])

\* ... and the return through sendViaTransport
LocalMesh_sendMessage_enqueued(w, c) == sendWithFallback_success(w, c)

\* GlobalMeshRelayService.sendMessage up to the await of the insert
Relay_sendMessage(w, c) ==
    AwaitHttp([w EXCEPT !.nextMsgId = @ + 1],
              [c EXCEPT !.fn = "Relay_sendMessage", !.pc = "insert",
                        !.lid = w.nextMsgId])

RECURSIVE sendWithFallback_loop(_, _)

\* ... from the response of the insert: the row exists and the call returns,
\* or the error is thrown to the catch of sendWithFallback
Relay_sendMessage_inserted(w, c) ==
    IF c.ok
    THEN sendWithFallback_success(
            [w EXCEPT
                !.mesh_messages =
                    Append(@, [id |-> c.lid, from |-> Local, to |-> c.to,
                               status |-> "sent"]),
                !.processedMessageIds = @ \cup {c.lid},
                !.handed = @ \cup {c.id}], c)
    ELSE sendWithFallback_loop(recordFailure(w, c.transport), c)

\* sendViaTransport; c.transport is the transport
sendViaTransport(w, c) ==
    CASE c.transport \in {"bluetooth", "wifi"} -> LocalMesh_sendMessage(w, c)
      [] c.transport = "webrtc" ->
            \* webRTCMesh.sendToPeer is true for a connected peer
            IF c.to \in w.webrtcPeers
            THEN sendWithFallback_success(
                    [w EXCEPT !.handed = @ \cup {c.id}], c)
            ELSE sendWithFallback_loop(w, c)
      [] c.transport = "network" ->
            IF w.isOnline THEN Relay_sendMessage(w, c)
            ELSE sendWithFallback_loop(w, c)
      [] OTHER -> sendWithFallback_loop(w, c)

\* the for loop of sendWithFallback; c.rest are the transports left
sendWithFallback_loop(w, c) ==
    IF c.rest = <<>> THEN Unified_sendMessage_failure(w, c)
    ELSE LET next == [c EXCEPT !.transport = Head(c.rest),
                               !.rest = Tail(c.rest)]
         IN  IF Head(c.rest) = "unknown" THEN sendWithFallback_loop(w, next)
             ELSE sendViaTransport(w, next)

sendWithFallback(w, c) ==
    LET decision == selectTransportForPeer(w, c.to)
        allTransports == <<decision.primary>> \o decision.fallbacks
    IN  sendWithFallback_loop(w, [c EXCEPT !.rest = allTransports])

\* UnifiedMeshService.sendMessage up to `await saveMessage(message, false)`
Unified_sendMessage(w, receiverId) ==
    LET messageId == w.nextMsgId
    IN  Await(saveMessage([w EXCEPT !.nextMsgId = @ + 1], messageId,
                          receiverId, "sending", FALSE),
              "messages",
              Cont("Unified_sendMessage", "saveMessage", messageId,
                   receiverId))

\* ---- UnifiedMeshService: devices and transports
updateTransportCounts(w) ==
    LET localDevices == IF w.lmPeer = "none" THEN 0 ELSE 1
        globalDevicesCount == Cardinality(w.globalDevices)
        webrtcDevices == Cardinality(w.webrtcPeers)
        w1 == updateTransportAvailability(w, "wifi", TRUE, localDevices)
        w2 == updateTransportAvailability(w1, "webrtc", webrtcDevices > 0,
                                          webrtcDevices)
    IN  updateTransportAvailability(w2, "network", w.isOnline,
                                    globalDevicesCount)

handleDeviceDiscovered(w, deviceId, transport) ==
    LET w1 == IF deviceId \notin DOMAIN w.devices
              THEN updatePeerTransports(w, deviceId, <<transport>>)
              ELSE updatePeerTransports(w, deviceId,
                                        <<transport, w.devices[deviceId]>>)
    IN  updateTransportCounts(
            [w1 EXCEPT !.devices = (deviceId :> transport) @@ @])

handleMessageReceived(w, id, status) ==
    [saveMessage(w, id, Local, status, TRUE) EXCEPT
        !.receivedEvents = Append(@, id)]

\* ---- LocalMeshService.retryPendingMessages
RECURSIVE LocalMesh_retryPendingMessages_loop(_, _)

\* the body of the for loop for the first of c.items, up to its first await
LocalMesh_retryPendingMessages_loop(w, c) ==
    IF c.items = <<>> THEN [w EXCEPT !.retrying = @ - 1]
    ELSE LET item == Head(c.items)
             next == [c EXCEPT !.items = Tail(@)]
         IN  IF item.retries >= DurableMaxRetries
             THEN updateMessageStatus(w, item.id, "failed",
                      <<[next EXCEPT !.pc = "updateMessageStatus",
                                     !.id = item.id]>>)
             ELSE IF w.lmPeer = "online" /\ item.to = Remote
             THEN Await(updatePendingRetry(
                            sendMessageViaBroadcast(w, item.id, item.to),
                            item.id),
                        "pendingMessages",
                        [next EXCEPT !.pc = "updatePendingRetry"])
             ELSE LocalMesh_retryPendingMessages_loop(w, next)

\* up to `await offlineStorage.getPendingMessages()`
LocalMesh_retryPendingMessages(w) ==
    Await([w EXCEPT !.retrying = @ + 1], "pendingMessages",
          [Cont("LocalMesh_retryPendingMessages", "getPendingMessages", 0,
                "none") EXCEPT !.items = getPendingMessages(w)])

\* from the return of updateMessageStatus(item.id, 'failed') up to
\* `await offlineStorage.removeFromPendingQueue(item.id)`
LocalMesh_retryPendingMessages_failed(w, c) ==
    Await(removeFromPendingQueue(w, c.id), "pendingMessages",
          [c EXCEPT !.pc = "removeFromPendingQueue"])

\* ---- GlobalMeshRelayService: receiving
\* this.events.onMessageReceived?.(message): the handler is set once
\* initializeGlobalRelay has returned from globalMeshRelay.initialize
Relay_onMessageReceived(w, id, status) ==
    IF w.umInit = "done" THEN handleMessageReceived(w, id, status) ELSE w

markMessageDelivered(w, id) ==
    AwaitHttp(w, Cont("markMessageDelivered", "update", id, "none"))

markMessageDelivered_updated(w, c) ==
    [w EXCEPT !.mesh_messages =
        [i \in DOMAIN @ |-> IF @[i].id = c.id
                            THEN [@[i] EXCEPT !.status = "delivered"]
                            ELSE @[i]]]

\* the INSERT handler of setupMessageChannel up to
\* `await offlineStorage.messageExists(m.message_id)`
onInsert(w, m) ==
    IF m.to # Local \/ m.from = Local \/ m.id \in w.processedMessageIds
    THEN w
    ELSE Await([w EXCEPT !.processedMessageIds = @ \cup {m.id}], "messages",
               [Cont("onInsert", "messageExists", m.id, m.to) EXCEPT
                   !.found = getMessage(w, m.id)])

\* ... up to `await offlineStorage.saveMessage(message, true)`
onInsert_exists(w, c) ==
    IF c.found.status # "none" THEN w
    ELSE Await(saveMessage(w, c.id, c.to, "delivered", TRUE), "messages",
               [c EXCEPT !.pc = "saveMessage"])

\* ... to the end
onInsert_saved(w, c) ==
    markMessageDelivered(Relay_onMessageReceived(w, c.id, "delivered"), c.id)

RECURSIVE fetchHistoricalMessages_received(_, _)
RECURSIVE fetchHistoricalMessages_sent(_, _)

\* the first loop of fetchHistoricalMessages for the first of c.rows, up to
\* `await offlineStorage.messageExists(m.message_id)`; after the last row,
\* up to the await of the second select
fetchHistoricalMessages_received(w, c) ==
    IF c.rows = <<>> THEN AwaitHttp(w, [c EXCEPT !.pc = "select sent"])
    ELSE LET m == Head(c.rows)
             next == [c EXCEPT !.rows = Tail(@)]
         IN  IF m.id \in w.processedMessageIds
             THEN fetchHistoricalMessages_received(w, next)
             ELSE Await(w, "messages",
                        [next EXCEPT !.pc = "messageExists", !.id = m.id,
                                     !.to = m.to, !.status = m.status,
                                     !.found = getMessage(w, m.id)])

\* ... from the result of messageExists up to `await saveMessage`
fetchHistoricalMessages_exists(w, c) ==
    IF c.found.status # "none"
    THEN fetchHistoricalMessages_received(
            [w EXCEPT !.processedMessageIds = @ \cup {c.id}], c)
    ELSE Await(saveMessage(w, c.id, c.to, c.status, TRUE), "messages",
               [c EXCEPT !.pc = "saveMessage"])

\* ... processedMessageIds.add, the event, and the next row
fetchHistoricalMessages_saved(w, c) ==
    fetchHistoricalMessages_received(
        Relay_onMessageReceived(
            [w EXCEPT !.processedMessageIds = @ \cup {c.id}], c.id, c.status),
        c)

\* the second loop, over the rows this device sent; after the last row
\* fetchHistoricalMessages returns to connect, which returns to its caller
fetchHistoricalMessages_sent(w, c) ==
    IF c.rows = <<>> THEN Return(w, c.then)
    ELSE LET m == Head(c.rows)
             next == [c EXCEPT !.rows = Tail(@)]
         IN  IF m.id \in w.processedMessageIds
             THEN fetchHistoricalMessages_sent(w, next)
             ELSE Await(w, "messages",
                        [next EXCEPT !.pc = "sent messageExists",
                                     !.id = m.id, !.to = m.to,
                                     !.status = m.status,
                                     !.found = getMessage(w, m.id)])

fetchHistoricalMessages_sentExists(w, c) ==
    IF c.found.status # "none"
    THEN fetchHistoricalMessages_sent(
            [w EXCEPT !.processedMessageIds = @ \cup {c.id}], c)
    ELSE Await(saveMessage(w, c.id, c.to, c.status, TRUE), "messages",
               [c EXCEPT !.pc = "sent saveMessage"])

fetchHistoricalMessages_sentSaved(w, c) ==
    fetchHistoricalMessages_sent(
        [w EXCEPT !.processedMessageIds = @ \cup {c.id}], c)

RowsOf(w, field, deviceId) ==
    LET matches(m) == m[field] = deviceId
    IN  SelectSeq(w.mesh_messages, matches)

\* fetchHistoricalMessages up to the await of the first select
fetchHistoricalMessages(w, then) ==
    AwaitHttp(w, [Cont("fetchHistoricalMessages", "select received", 0,
                       "none") EXCEPT !.then = then])

\* connect: registerDevice, the channels, fetchOnlineDevices,
\* fetchHistoricalMessages
connect(w, then) ==
    AwaitHttp(w, [Cont("connect", "registerDevice", 0, "none") EXCEPT
                     !.then = then])

connect_registered(w, c) ==
    AwaitHttp([w EXCEPT !.messageChannel = TRUE],
              [c EXCEPT !.pc = "fetchOnlineDevices"])

connect_fetched(w, c) == fetchHistoricalMessages(w, c.then)

\* initializeGlobalRelay from the return of globalMeshRelay.initialize: the
\* handlers are set; startPeriodicSync
initializeGlobalRelay_done(w) == [w EXCEPT !.umInit = "done"]

\* ---- resuming a suspended frame
Run(w, c) ==
    CASE c.fn = "Unified_sendMessage" ->
            (CASE c.pc = "saveMessage" -> sendWithFallback(w, c)
               [] c.pc = "saveMessage sent" -> Unified_sendMessage_sent(w, c)
               [] c.pc = "saveMessage queued" ->
                     Unified_sendMessage_queued(w, c)
               [] OTHER -> Unified_sendMessage_enqueued(w, c))
      [] c.fn = "LocalMesh_sendMessage" ->
            (CASE c.pc = "saveMessage" -> LocalMesh_sendMessage_saved(w, c)
               [] c.pc = "saveMessage sent" ->
                     LocalMesh_sendMessage_sent(w, c)
               [] c.pc = "saveMessage queued" ->
                     LocalMesh_sendMessage_queued(w, c)
               [] OTHER -> LocalMesh_sendMessage_enqueued(w, c))
      [] c.fn = "Relay_sendMessage" -> Relay_sendMessage_inserted(w, c)
      [] c.fn = "updateMessageStatus" ->
            (CASE c.pc = "getMessage" -> updateMessageStatus_got(w, c)
               [] OTHER -> updateMessageStatus_saved(w, c))
      [] c.fn = "LocalMesh_retryPendingMessages" ->
            (CASE c.pc = "updateMessageStatus" ->
                     LocalMesh_retryPendingMessages_failed(w, c)
               [] OTHER -> LocalMesh_retryPendingMessages_loop(w, c))
      [] c.fn = "onInsert" ->
            (CASE c.pc = "messageExists" -> onInsert_exists(w, c)
               [] OTHER -> onInsert_saved(w, c))
      [] c.fn = "markMessageDelivered" -> markMessageDelivered_updated(w, c)
      [] c.fn = "fetchHistoricalMessages" ->
            (CASE c.pc = "select received" ->
                     fetchHistoricalMessages_received(
                         w, [c EXCEPT !.rows = RowsOf(w, "to", Local)])
               [] c.pc = "messageExists" ->
                     fetchHistoricalMessages_exists(w, c)
               [] c.pc = "saveMessage" -> fetchHistoricalMessages_saved(w, c)
               [] c.pc = "select sent" ->
                     fetchHistoricalMessages_sent(
                         w, [c EXCEPT !.rows = RowsOf(w, "from", Local)])
               [] c.pc = "sent messageExists" ->
                     fetchHistoricalMessages_sentExists(w, c)
               [] OTHER -> fetchHistoricalMessages_sentSaved(w, c))
      [] c.fn = "connect" ->
            (CASE c.pc = "registerDevice" -> connect_registered(w, c)
               [] OTHER -> connect_fetched(w, c))
      [] c.fn = "initializeGlobalRelay" -> initializeGlobalRelay_done(w)
      [] OTHER -> w

(***************************************************************************)
(* Steps of the pipeline                                                   *)
(***************************************************************************)

PipeInit ==
    /\ db = FALSE
    /\ messages = <<>>
    /\ pendingMessages = <<>>
    /\ stored = <<>>
    /\ idb = [messages |-> <<>>, pendingMessages |-> <<>>]
    /\ http = {}
    /\ metrics = initializeMetrics
    /\ peerTransports = <<>>
    /\ devices = <<>>
    /\ globalDevices = {}
    /\ broadcastChannel = FALSE
    /\ lmPendingAcks = <<>>
    /\ lmPeer = "none"
    /\ retrying = 0
    /\ bc = {}
    /\ remoteProcessed = {}
    /\ remoteReceived = <<>>
    /\ remoteStore = {}
    /\ webrtcPeers = {}
    /\ isOnline = FALSE
    /\ mesh_messages = <<>>
    /\ processedMessageIds = {}
    /\ insertEvents = {}
    /\ messageChannel = FALSE
    /\ umInit = "new"
    /\ statusEvents = <<>>
    /\ receivedEvents = <<>>
    /\ deliverTimers = {}
    /\ acked = {}
    /\ handed = {}
    /\ returned = {}
    /\ nextMsgId = 1
    /\ budget = [sends |-> MaxUnifiedSends, rows |-> MaxRows,
                 env |-> MaxEnv, checks |-> MaxChecks]
    /\ Preferences = "null"
    /\ localDeviceId = ""
    /\ isInitialized = FALSE
    /\ messageParties = <<>>
    /\ initializeReturned = <<>>
    /\ storedBeforeCleanup = {}
    /\ cleanups = 0
    /\ identityErrors = {}
    /\ lineSent = <<>>
    /\ lineNet = {}
    /\ lineSeen = [k \in {} |-> {}]
    /\ lineReceived = {}
    /\ codecStage = "none"
    /\ codecPacket = [null |-> TRUE]
    /\ codecBuffer = <<>>
    /\ codecDecoded = [null |-> TRUE]
    /\ relayArgs = [null |-> TRUE]
    /\ relayResult = FALSE
    /\ registry = [devices |-> <<>>, local |-> <<>>, global |-> <<>>,
                   mesh |-> <<>>, now |-> 0, observed |-> 0,
                   merged |-> <<>>, swept |-> <<>>,
                   saved |-> <<>>, isInitialized |-> FALSE,
                   emitted |-> <<>>]
    /\ recorded = [calls |-> 0, last |-> <<>>, decision |-> <<>>]
    /\ presence = [channel |-> {}, discoveredDevices |-> <<>>,
                   posted |-> [p \in {} |-> 0], intervals |-> 0,
                   responded |-> <<>>]
    /\ scan = [isScanning |-> FALSE, scanInterval |-> 0, timers |-> <<>>,
               awaiting |-> {}, calls |-> 0, emitted |-> <<>>,
               cleaned |-> FALSE]
    /\ emission = [calls |-> 0, microtasks |-> <<>>, sends |-> <<>>]
    /\ upload = [db |-> "new", isOnline |-> FALSE, messages |-> <<>>,
                 mesh_messages |-> <<>>, calls |-> 0, last |-> <<>>]

\* A request of store has completed and the frame of fn is the one to go on.
Ready(store, fn) == idb[store] # <<>> /\ Head(idb[store]).fn = fn

\* ... and the frame goes on
Resumed(store) == Run([W0 EXCEPT !.idb[store] = Tail(@)], Head(idb[store]))

\* A response of the relay has arrived for frame c, which goes on.
Responded(c, ok) == Run([W0 EXCEPT !.http = @ \ {c}], [c EXCEPT !.ok = ok])

Stores == {"messages", "pendingMessages"}

\* ---- UnifiedMeshService.initialize, lines 63-107
\* loadDeviceIdentity and offlineStorage.initialize: the database opens or
\* the open request fails
Unified_initialize_storage ==
    /\ umInit = "new"
    /\ \E opened \in BOOLEAN :
          SetW([W0 EXCEPT !.db = opened, !.umInit = "storage"])

\* initializeLocalMesh (localMesh.initialize opens the database if it is not
\* open, and sets the BroadcastChannel up where there is one), then
\* updateTransportAvailability('wifi', true, 0)
Unified_initialize_localMesh ==
    /\ umInit = "storage"
    /\ \E opened \in {db, TRUE} : \E channel \in BOOLEAN :
          SetW(updateTransportAvailability(
                  [W0 EXCEPT !.db = opened, !.broadcastChannel = channel,
                             !.umInit = "localMesh"],
                  "wifi", TRUE, 0))

\* initializeWebRTC: webRTCMesh.initialize does not throw
Unified_initialize_webRTC ==
    /\ umInit = "localMesh"
    /\ SetW(updateTransportAvailability([W0 EXCEPT !.umInit = "webrtc"],
                                        "webrtc", TRUE, 0))

\* initializeGlobalRelay up to the return of globalMeshRelay.initialize
\* (offline) or to the first await of connect (online)
Unified_initialize_globalRelay ==
    /\ umInit = "webrtc"
    /\ \E online \in BOOLEAN :
          LET w == [W0 EXCEPT !.isOnline = online, !.umInit = "relay"]
          IN  SetW(IF online
                   THEN connect(w, <<Cont("initializeGlobalRelay", "connect",
                                          0, "none")>>)
                   ELSE initializeGlobalRelay_done(w))

Initialized == umInit = "done"

LocalMeshInitialized == umInit \in {"localMesh", "webrtc", "relay", "done"}

\* ---- sending
Unified_sendMessage_called ==
    /\ budget.sends > 0
    /\ SetW(Unified_sendMessage([W0 EXCEPT !.budget.sends = @ - 1], Remote))

Unified_sendMessage_resumed ==
    \E store \in Stores :
        /\ Ready(store, "Unified_sendMessage")
        /\ SetW(Resumed(store))

LocalMesh_sendMessage_resumed ==
    \E store \in Stores :
        /\ Ready(store, "LocalMesh_sendMessage")
        /\ SetW(Resumed(store))

Relay_sendMessage_responded ==
    \E c \in http : \E ok \in BOOLEAN :
        /\ c.fn = "Relay_sendMessage"
        /\ SetW(Responded(c, ok))

updateMessageStatus_resumed ==
    /\ Ready("messages", "updateMessageStatus")
    /\ SetW(Resumed("messages"))

\* the setTimeout callback of UnifiedMeshService.sendMessage, lines 366-369
Unified_deliverTimer(id) ==
    /\ id \in deliverTimers
    /\ SetW(updateMessageStatus(
              emitStatus([W0 EXCEPT !.deliverTimers = @ \ {id}], id,
                         "delivered"),
              id, "delivered", <<>>))

\* the setTimeout callback of LocalMeshService.sendMessage, lines 387-392
LocalMesh_ackTimer(id) ==
    /\ id \in DOMAIN lmPendingAcks
    /\ lmPendingAcks[id].timer = "armed"
    /\ SetW(addToPendingQueue([W0 EXCEPT !.lmPendingAcks[id].timer = "fired"],
                              id, lmPendingAcks[id].to))

\* LocalMeshService.handleAck for an ACK event of the BroadcastChannel
LocalMesh_handleAck(data) ==
    /\ data \in bc
    /\ data.type = "ACK"
    /\ LET w == [W0 EXCEPT !.bc = @ \ {data}, !.acked = @ \cup {data.id}]
       IN  IF data.to = Local /\ data.id \in DOMAIN lmPendingAcks
           THEN SetW(emitStatus(
                       removeFromPendingQueue(
                           updateMessageStatus(
                               [w EXCEPT !.lmPendingAcks =
                                   [k \in DOMAIN @ \ {data.id} |-> @[k]]],
                               data.id, "delivered", <<>>),
                           data.id),
                       data.id, "delivered"))
           ELSE SetW(w)

\* LocalMeshService.handleIncomingMessage and sendAck at the receiving device
Remote_handleIncomingMessage(data) ==
    /\ data \in bc
    /\ data.type = "MESSAGE"
    /\ IF data.to = Remote /\ data.id \notin remoteProcessed
       THEN SetW([W0 EXCEPT
                    !.remoteProcessed = @ \cup {data.id},
                    !.remoteStore = @ \cup {data.id},
                    !.remoteReceived = Append(@, data.id),
                    !.bc = (@ \ {data}) \cup
                           {[type |-> "ACK", id |-> data.id, from |-> Remote,
                             to |-> data.from]}])
       ELSE SetW([W0 EXCEPT !.bc = @ \ {data}])

\* The receiving device runs LocalMeshService.cleanup(), lines 470-490
\* (processedMessages.clear()), and initialize() again; its durable store
\* stays.
Remote_restart ==
    /\ budget.env > 0
    /\ remoteProcessed # {}
    /\ SetW([W0 EXCEPT !.remoteProcessed = {}, !.budget.env = @ - 1])

\* No other context listens on the BroadcastChannel.
broadcastUnheard(data) ==
    /\ data \in bc
    /\ data.type = "MESSAGE"
    /\ SetW([W0 EXCEPT !.bc = @ \ {data}])

\* The receiver marks a relay row of this device delivered; the UPDATE
\* handler of setupMessageChannel, lines 394-403
Relay_onUpdate(i) ==
    /\ i \in DOMAIN mesh_messages
    /\ mesh_messages[i].from = Local
    /\ mesh_messages[i].status = "sent"
    /\ LET id == mesh_messages[i].id
           w == [W0 EXCEPT !.mesh_messages[i].status = "delivered"]
       IN  IF messageChannel /\ isOnline
           THEN LET w1 == [w EXCEPT !.acked = @ \cup {id}]
                IN  SetW(IF Initialized THEN emitStatus(w1, id, "delivered")
                         ELSE w1)
           ELSE SetW(w)

\* ---- the surroundings
\* the interval of startConnectivityMonitor finds the connectivity changed
Relay_connectivityCheck ==
    /\ Initialized
    /\ budget.checks > 0
    /\ LET w == updateTransportAvailability(
                   [W0 EXCEPT !.isOnline = ~isOnline, !.budget.checks = @ - 1],
                   "network", ~isOnline,
                   IF ~isOnline THEN Cardinality(globalDevices) ELSE 0)
       IN  SetW(IF ~isOnline THEN connect(w, <<>>) ELSE w)

\* the interval of startPeriodicSync: getUnsyncedMessages rejects on an open
\* database (IDBKeyRange.only(false) is not a valid key), and the callback
\* ends before updateTransportCounts
Unified_periodicSync ==
    /\ Initialized
    /\ budget.env > 0
    /\ ~(isOnline /\ db)
    /\ SetW(updateTransportCounts([W0 EXCEPT !.budget.env = @ - 1]))

\* LocalMeshService.handlePresence for the receiving device
LocalMesh_handlePresence ==
    /\ broadcastChannel
    /\ budget.env > 0
    /\ lmPeer # "online"
    /\ LET w == [W0 EXCEPT !.lmPeer = "online", !.budget.env = @ - 1]
       IN  SetW(IF lmPeer = "none"
                THEN handleDeviceDiscovered(w, Remote, "wifi")
                ELSE w)

\* LocalMeshService.checkPeerStatus: past 15 s the entry no longer counts as
\* online, past 60 s it is removed
LocalMesh_checkPeerStatus ==
    /\ lmPeer # "none"
    /\ budget.env > 0
    /\ SetW([W0 EXCEPT !.lmPeer = IF lmPeer = "online" THEN "stale"
                                  ELSE "none",
                       !.budget.env = @ - 1])

\* the presence channel of the relay reports the receiving device
Relay_deviceDiscovered ==
    /\ Initialized /\ isOnline /\ messageChannel
    /\ budget.env > 0
    /\ Remote \notin globalDevices
    /\ SetW(handleDeviceDiscovered(
              [W0 EXCEPT !.globalDevices = @ \cup {Remote},
                         !.budget.env = @ - 1],
              Remote, "network"))

webrtcConnect(peerId) ==
    /\ umInit \in {"webrtc", "relay", "done"}
    /\ budget.env > 0
    /\ peerId \notin webrtcPeers
    /\ SetW([W0 EXCEPT !.webrtcPeers = @ \cup {peerId},
                       !.budget.env = @ - 1])

webrtcClose(peerId) ==
    /\ peerId \in webrtcPeers
    /\ budget.env > 0
    /\ SetW([W0 EXCEPT !.webrtcPeers = @ \ {peerId}, !.budget.env = @ - 1])

\* Date.now() - lastSuccess passes 60 s, 300 s
timePasses ==
    /\ \E type \in DOMAIN metrics : metrics[type].lastSuccess # "old"
    /\ SetW([W0 EXCEPT !.metrics =
                [type \in DOMAIN @ |->
                    [@[type] EXCEPT !.lastSuccess =
                        IF @ = "recent" THEN "aging" ELSE "old"]]])

\* ---- the durable queue
\* the interval of startCleanupRoutine: retryPendingMessages()
LocalMesh_cleanupRoutine ==
    /\ LocalMeshInitialized
    /\ retrying < MaxRetrying
    /\ SetW(LocalMesh_retryPendingMessages(W0))

LocalMesh_retryPendingMessages_resumed ==
    /\ Ready("pendingMessages", "LocalMesh_retryPendingMessages")
    /\ SetW(Resumed("pendingMessages"))

\* ---- receiving through the relay
\* Another device inserts a row for this one.
remoteInsert ==
    /\ budget.rows > 0
    /\ LET m == [id |-> nextMsgId, from |-> Remote, to |-> Local,
                 status |-> "sent"]
       IN  SetW([W0 EXCEPT
                    !.mesh_messages = Append(@, m),
                    !.nextMsgId = @ + 1,
                    !.budget.rows = @ - 1,
                    !.insertEvents = IF messageChannel /\ isOnline
                                     THEN @ \cup {m} ELSE @])

Relay_onInsert(m) ==
    /\ m \in insertEvents
    /\ SetW(onInsert([W0 EXCEPT !.insertEvents = @ \ {m}], m))

onInsert_resumed ==
    /\ Ready("messages", "onInsert")
    /\ SetW(Resumed("messages"))

fetchHistoricalMessages_resumed ==
    /\ Ready("messages", "fetchHistoricalMessages")
    /\ SetW(Resumed("messages"))

fetchHistoricalMessages_responded ==
    \E c \in http : \E ok \in {TRUE} :
        /\ c.fn = "fetchHistoricalMessages"
        /\ SetW(Responded(c, ok))

connect_responded ==
    \E c \in http : \E ok \in {TRUE} :
        /\ c.fn = "connect"
        /\ SetW(Responded(c, ok))

markMessageDelivered_responded ==
    \E c \in http : \E ok \in {TRUE} :
        /\ c.fn = "markMessageDelivered"
        /\ SetW(Responded(c, ok))

\* ---- specifications
MeshNext ==
    \/ \E r \in {"B", "C"} : sendMessage("A", r, Hello)
    \/ \E n \in Nodes : \E t \in BagToSet(tasks[n]) : BroadcastNext(n, t)
    \/ \E n \in Nodes : \E t \in BagToSet(tasks[n]) :
          sendMessageDone(n, t)
    \/ \E n \in Nodes : \E i \in DOMAIN pendingAcks[n] : timerFired(n, i)
    \/ \E n \in Nodes : \E t \in BagToSet(tasks[n]) : timerDone(n, t)
    \/ \E n \in Nodes : heartbeat(n)
    \/ \E n \in Nodes : \E t \in BagToSet(tasks[n]) :
          retryPendingMessagesResume(n, t)
    \/ \E n \in Nodes : \E link \in net : handleReceivedPacket(n, link)
    \/ \E n \in Nodes : \E t \in BagToSet(tasks[n]) :
          handleMessagePacket(n, t)
    \/ \E n \in Nodes : \E t \in BagToSet(tasks[n]) : sendAckDone(n, t)
    \/ \E n \in Nodes : \E t \in BagToSet(tasks[n]) : relayDone(n, t)

\* One node (B, between A and C) under arbitrary arrivals: copies of a few
\* packets in any order and number, other traffic, and the heartbeat.
SeenInit == MeshInit /\ PipeInit /\ peers = Chain

SeenNext ==
    \/ inject("B")
    \/ otherTraffic("B")
    \/ heartbeat("B")
    \/ \E link \in net : handleReceivedPacket("B", link)
    \/ \E t \in BagToSet(tasks["B"]) : handleMessagePacket("B", t)
    \/ \E t \in BagToSet(tasks["B"]) : BroadcastNext("B", t)
    \/ \E t \in BagToSet(tasks["B"]) : sendAckDone("B", t)
    \/ \E t \in BagToSet(tasks["B"]) : relayDone("B", t)

SpecSeen == SeenInit /\ [][SeenNext]_vars

\* One node (B, between A and C) receiving packets with ttl 0.
TtlNext ==
    \/ injectExhausted("B")
    \/ \E link \in net : handleReceivedPacket("B", link)
    \/ \E t \in BagToSet(tasks["B"]) : handleMessagePacket("B", t)
    \/ \E t \in BagToSet(tasks["B"]) : BroadcastNext("B", t)
    \/ \E t \in BagToSet(tasks["B"]) : sendAckDone("B", t)

SpecTtl == SeenInit /\ [][TtlNext]_vars

\* One node (B) that has sent a message and receives forged packets.
ForgedNext ==
    \/ sendMessage("B", "C", Hello)
    \/ \E t \in BagToSet(tasks["B"]) : BroadcastNext("B", t)
    \/ \E t \in BagToSet(tasks["B"]) : sendMessageDone("B", t)
    \/ injectForged("B")
    \/ \E link \in net : handleReceivedPacket("B", link)

SpecForged == SeenInit /\ [][ForgedNext]_vars

\* One node (B) that sends a message, retries it, and is cleaned up at any
\* moment; nothing is sent once it is cleaned up.
CleanupNext ==
    \/ heartbeatInterval["B"] /\ sendMessage("B", "C", Hello)
    \/ \E t \in BagToSet(tasks["B"]) : BroadcastNext("B", t)
    \/ \E t \in BagToSet(tasks["B"]) : sendMessageDone("B", t)
    \/ \E i \in DOMAIN pendingAcks["B"] : timerFired("B", i)
    \/ \E t \in BagToSet(tasks["B"]) : timerDone("B", t)
    \/ cleanup("B")

SpecCleanup == SeenInit /\ [][CleanupNext]_vars

\* One node (B, between A and C) receiving packets of more than
\* MAX_MESSAGE_SIZE bytes.
OversizeNext ==
    \/ injectOversize("B")
    \/ \E link \in net : handleReceivedPacket("B", link)
    \/ \E t \in BagToSet(tasks["B"]) : handleMessagePacket("B", t)
    \/ \E t \in BagToSet(tasks["B"]) : BroadcastNext("B", t)
    \/ \E t \in BagToSet(tasks["B"]) : sendAckDone("B", t)

SpecOversize == SeenInit /\ [][OversizeNext]_vars

\* One node (B, between A and C) receiving packets that are on their way.
TravelledNext ==
    \/ injectTravelled("B")
    \/ \E link \in net : handleReceivedPacket("B", link)
    \/ \E t \in BagToSet(tasks["B"]) : handleMessagePacket("B", t)
    \/ \E t \in BagToSet(tasks["B"]) : BroadcastNext("B", t)
    \/ \E t \in BagToSet(tasks["B"]) : sendAckDone("B", t)
    \/ \E t \in BagToSet(tasks["B"]) : relayDone("B", t)

SpecTravelled == SeenInit /\ [][TravelledNext]_vars

Init == MeshInit /\ PipeInit
Next == MeshNext
Spec == Init /\ [][Next]_vars

\* Three devices, in a chain or with A and C connected; A or B sends a message
\* to a device or to everyone, and every device handles what reaches it.
DeliveryNext ==
    \/ \E n \in {"A", "B"}, r \in {"B", "C", "*"} : sendMessage(n, r, Hello)
    \/ \E n \in Nodes : \E t \in BagToSet(tasks[n]) : BroadcastNext(n, t)
    \/ \E n \in Nodes : \E t \in BagToSet(tasks[n]) :
          sendMessageDone(n, t)
    \/ \E n \in Nodes : \E link \in net : handleReceivedPacket(n, link)
    \/ \E n \in Nodes : \E t \in BagToSet(tasks[n]) :
          handleMessagePacket(n, t)
    \/ \E n \in Nodes : \E t \in BagToSet(tasks[n]) : sendAckDone(n, t)
    \/ \E n \in Nodes : \E t \in BagToSet(tasks[n]) : relayDone(n, t)

SpecDelivery == Init /\ [][DeliveryNext]_vars

\* MultiTransportMesh stays as constructed.
PipelineInit == MeshInit /\ PipeInit /\ peers = Chain

InitializeNext ==
    \/ Unified_initialize_storage
    \/ Unified_initialize_localMesh
    \/ Unified_initialize_webRTC
    \/ Unified_initialize_globalRelay
    \/ connect_responded
    \/ fetchHistoricalMessages_responded

\* The device sends: UnifiedMeshService.sendMessage and what it sets going.
UnifiedNext ==
    \/ InitializeNext
    \/ Unified_sendMessage_called
    \/ Unified_sendMessage_resumed
    \/ LocalMesh_sendMessage_resumed
    \/ Relay_sendMessage_responded
    \/ updateMessageStatus_resumed
    \/ \E id \in deliverTimers : Unified_deliverTimer(id)
    \/ \E id \in DOMAIN lmPendingAcks : LocalMesh_ackTimer(id)
    \/ \E data \in bc : LocalMesh_handleAck(data)
    \/ \E data \in bc : Remote_handleIncomingMessage(data)
    \/ \E data \in bc : broadcastUnheard(data)
    \/ \E i \in DOMAIN mesh_messages : Relay_onUpdate(i)
    \/ Relay_connectivityCheck
    \/ Unified_periodicSync
    \/ LocalMesh_handlePresence
    \/ Relay_deviceDiscovered
    \/ \E peerId \in {Remote, Third} : webrtcConnect(peerId)
    \/ \E peerId \in {Remote, Third} : webrtcClose(peerId)
    \/ timePasses

SpecUnified == PipelineInit /\ [][UnifiedNext]_vars

\* The durable pending queue and LocalMeshService.retryPendingMessages.
QueueNext ==
    \/ InitializeNext
    \/ Unified_sendMessage_called
    \/ Unified_sendMessage_resumed
    \/ LocalMesh_sendMessage_resumed
    \/ updateMessageStatus_resumed
    \/ \E id \in DOMAIN lmPendingAcks : LocalMesh_ackTimer(id)
    \/ \E data \in bc : LocalMesh_handleAck(data)
    \/ \E data \in bc : Remote_handleIncomingMessage(data)
    \/ LocalMesh_handlePresence
    \/ LocalMesh_checkPeerStatus
    \/ LocalMesh_cleanupRoutine
    \/ LocalMesh_retryPendingMessages_resumed

SpecQueue == PipelineInit /\ [][QueueNext]_vars

\* The device receives through the relay: the INSERT handler and
\* fetchHistoricalMessages.
RelayNext ==
    \/ InitializeNext
    \/ Relay_connectivityCheck
    \/ remoteInsert
    \/ \E m \in insertEvents : Relay_onInsert(m)
    \/ onInsert_resumed
    \/ fetchHistoricalMessages_resumed
    \/ markMessageDelivered_responded

SpecRelay == PipelineInit /\ [][RelayNext]_vars

\* A sends to B, which no device is connected to (A and C are connected to
\* each other, so broadcastPacket has one peer to send to).
\* Timers and the heartbeat interval keep firing and every await returns.
OfflineInit == MeshInit /\ PipeInit /\ peers = Direct

OfflineNext ==
    \/ sendMessage("A", "B", Hello)
    \/ \E n \in Nodes : \E t \in BagToSet(tasks[n]) :
          sendMessageDone(n, t)
    \/ \E n \in Nodes : \E i \in DOMAIN pendingAcks[n] : timerFired(n, i)
    \/ \E n \in Nodes : \E t \in BagToSet(tasks[n]) : timerDone(n, t)
    \/ \E n \in Nodes : heartbeat(n)
    \/ \E n \in Nodes : \E t \in BagToSet(tasks[n]) :
          retryPendingMessagesResume(n, t)
    \/ \E n \in Nodes : \E link \in net : handleReceivedPacket(n, link)
    \/ \E n \in Nodes : \E t \in BagToSet(tasks[n]) : relayDone(n, t)

\* The timers and the 5 s interval fire and every await of broadcastPacket
\* returns; when sendMessage is called and when a packet on a link is
\* received is left open.
OfflineFairness ==
    /\ WF_vars(\E n \in Nodes : \E t \in BagToSet(tasks[n]) :
                  sendMessageDone(n, t))
    /\ WF_vars(\E n \in Nodes : \E i \in DOMAIN pendingAcks[n] :
                  timerFired(n, i))
    /\ WF_vars(\E n \in Nodes : \E t \in BagToSet(tasks[n]) :
                  timerDone(n, t))
    /\ WF_vars(heartbeat("A"))
    /\ WF_vars(\E n \in Nodes : \E t \in BagToSet(tasks[n]) :
                  retryPendingMessagesResume(n, t))
    /\ WF_vars(\E n \in Nodes : \E t \in BagToSet(tasks[n]) :
                  relayDone(n, t))

SpecOffline == OfflineInit /\ [][OfflineNext]_vars /\ OfflineFairness

\* The receiving device restarts while the sender drains its pending queue.
RestartNext ==
    \/ QueueNext
    \/ Remote_restart

SpecRestart == PipelineInit /\ [][RestartNext]_vars

(***************************************************************************)
(* Properties                                                              *)
(***************************************************************************)

Deliveries(n, id) ==
    Cardinality({i \in DOMAIN onMessageReceived[n] :
                    onMessageReceived[n][i].id = id})

Relays(n, id) ==
    Cardinality({i \in DOMAIN relayed[n] : relayed[n][i].of.id = id})

Admitted(n) ==
    {onMessageReceived[n][i].id : i \in DOMAIN onMessageReceived[n]}
    \cup {relayed[n][i].of.id : i \in DOMAIN relayed[n]}

Reported(n, id, status) ==
    \E i \in DOMAIN onMessageStatusChanged[n] :
        onMessageStatusChanged[n][i] = <<id, status>>

\* C1, as amended: at any node, whatever copies of a packet id arrive and
\* however the handlers interleave, onMessageReceived is emitted at most once
\* and at most one relay copy is built for that id, as long as
\* cleanupOldPackets has not evicted the id from processedPackets.
C1_AtMostOnceWhileRetained ==
    \A n \in Nodes : \A id \in Admitted(n) :
        id \notin evicted[n] => Deliveries(n, id) <= 1 /\ Relays(n, id) <= 1

\* C1 witness: a message for everyone was delivered and relayed once at a
\* node, is still retained, and a later copy of it was rejected.
C1_Witness ==
    \E n \in Nodes : \E d \in dropped[n] :
        /\ d[2] = "duplicate"
        /\ d[1].id \notin evicted[n]
        /\ Deliveries(n, d[1].id) = 1
        /\ Relays(n, d[1].id) = 1

\* C1 as stated: at most one onMessageReceived and at most one relay copy per
\* id at a node, without condition.
C1_Claim ==
    \A n \in Nodes : \A id \in Admitted(n) :
        Deliveries(n, id) <= 1 /\ Relays(n, id) <= 1

Quiescent ==
    /\ net = {}
    /\ \A n \in Nodes : tasks[n] = EmptyBag
    /\ \A n \in Nodes : \A i \in DOMAIN pendingAcks[n] :
          pendingAcks[n][i].timer # "armed"

\* C2 as stated, the part a state can show: for a message of the relay
\* addressed to this device, the INSERT handler and fetchHistoricalMessages
\* together cause no more than one onMessageReceived for its id.
C2_Claim ==
    \A i, j \in DOMAIN receivedEvents :
        receivedEvents[i] = receivedEvents[j] => i = j

\* C3 as stated, in the form of its final result: on the chain A-B-C, once A
\* has sent a MESSAGE for C and nothing is left to run (no packet on a link,
\* no suspended handler, no armed timer), C has emitted onMessageReceived
\* with senderId A and hops [A, B] and A has reported delivered.
C3_Claim ==
    \A i \in DOMAIN sent :
        (peers = Chain /\ sent[i].targetId = "C" /\ Quiescent) =>
            /\ \E j \in DOMAIN onMessageReceived["C"] :
                  /\ onMessageReceived["C"][j].id = sent[i].id
                  /\ onMessageReceived["C"][j].senderId = "A"
                  /\ onMessageReceived["C"][j].hops = <<"A", "B">>
            /\ Reported("A", sent[i].id, "delivered")

\* C4 as stated: every relay copy prepareForRelay builds from a packet that
\* passed verifyPacket passes verifyPacket itself.
C4_Claim ==
    \A n \in Nodes : \A i \in DOMAIN relayed[n] :
        verifyPacket(relayed[n][i].of) => verifyPacket(relayed[n][i].as)

\* C5 as stated: once delivered has been reported for a message id, the id is
\* not in pendingAcks, no retry timer is armed for it, no retry of it is in
\* progress and failed is not reported for it afterwards.
C5_Claim ==
    \A n \in Nodes : \A i \in DOMAIN onMessageStatusChanged[n] :
        LET id == onMessageStatusChanged[n][i][1]
        IN  onMessageStatusChanged[n][i][2] = "delivered" =>
               /\ ~MapHas(pendingAcks[n], id)
               /\ \A j \in DOMAIN onMessageStatusChanged[n] :
                     j > i => onMessageStatusChanged[n][j] # <<id, "failed">>

\* C6 as stated: the retry counter of a message never exceeds 20, in the
\* pending-ACK table of MultiTransportMesh and in the durable pending queue.
C6_Claim ==
    /\ \A n \in Nodes : \A id \in DOMAIN pendingRetries[n] :
           pendingRetries[n][id] <= MaxRetries
    /\ \A id \in DOMAIN pendingMessages :
           pendingMessages[id].retries <= MaxRetries

\* A log of <<id, status, ...>> entries has nothing but delivered for an id
\* after a delivered for that id.
Forward(log) ==
    \A i, j \in DOMAIN log :
        (i < j /\ log[i][1] = log[j][1] /\ log[i][2] = "delivered") =>
            log[j][2] \notin {"sending", "sent", "queued", "failed"}

\* C7 as stated: once delivered has been reported through
\* onMessageStatusChanged or written to the store for a message id, no
\* sending, sent, queued or failed is reported or stored for it.
C7_Claim ==
    /\ \A n \in Nodes : Forward(onMessageStatusChanged[n])
    /\ Forward(statusEvents)
    /\ Forward(stored)

\* C8 as stated: the sender reports delivered for a message id, and stores
\* delivered for it, only when an acknowledgement for that id has arrived.
C8_Claim ==
    /\ \A i \in DOMAIN statusEvents :
           statusEvents[i][2] = "delivered" => statusEvents[i][1] \in acked
    /\ \A i \in DOMAIN stored :
           (stored[i][2] = "delivered" /\ stored[i][3] # Local) =>
               stored[i][1] \in acked

\* C9 as stated: a message sendMessage marks sent was handed to a transport
\* channel (posted on the BroadcastChannel, sent to a connected WebRTC peer
\* or inserted in the relay table).
C9_Claim ==
    \A r \in returned : r.status = "sent" => r.id \in handed

\* C10 as stated: a send that no transport took returns with the message
\* queued, never failed, a record for its id in the pending queue and
\* onMessageStatusChanged(id, queued) emitted.
C10_Claim ==
    \A r \in returned :
        r.id \notin handed =>
            /\ r.status = "queued"
            /\ r.pending
            /\ \E i \in DOMAIN statusEvents :
                   statusEvents[i] = <<r.id, "queued">>
            /\ \A i \in DOMAIN statusEvents :
                   statusEvents[i] # <<r.id, "failed">>

\* The message A sent is given up: failed was reported for it, it is in
\* neither pendingAcks nor messageQueue, and no call that would broadcast it
\* again is suspended.
GivenUp ==
    /\ sent # <<>>
    /\ \A i \in DOMAIN sent :
          /\ Reported("A", sent[i].id, "failed")
          /\ ~MapHas(pendingAcks["A"], sent[i].id)
          /\ \A t \in BagToSet(tasks["A"]) : t.packet.id # sent[i].id

\* C11: when the target of a message is connected to no device, the sender
\* eventually reports failed for the message id, its pending entry is removed
\* and it is not broadcast again, and no device ever emits onMessageReceived
\* for it.
C11_FailedWhenUnreachable ==
    /\ (sent # <<>>) ~> []GivenUp
    /\ [](\A n \in Nodes : onMessageReceived[n] = <<>>)

\* C11 witness: failed was reported for the message to the unreachable
\* device after 20 retries, and nothing is left of it.
C11_Witness ==
    /\ GivenUp
    /\ pendingRetries["A"][sent[1].id] = MaxRetries
    /\ sent[1].targetId = "B"

\* The ACK packets device n built for message packet id.
AcksFor(n, id) == {i \in DOMAIN acks[n] : acks[n][i].payload = id}

\* Every ACK device n built for a message it delivered is an ACK packet for
\* the original sender with the full ttl.
AcksWellFormed(n) ==
    \A j \in DOMAIN onMessageReceived[n] :
        \A i \in AcksFor(n, onMessageReceived[n][j].id) :
            /\ acks[n][i].type = "ACK"
            /\ acks[n][i].targetId = onMessageReceived[n][j].senderId
            /\ acks[n][i].ttl = MAX_TTL

\* C12, as amended: for each MESSAGE packet id delivered at a device, the
\* device builds exactly one ACK packet, with the message packet id as
\* payload, the original sender as target and ttl MAX_TTL, whatever other
\* copies of the packet arrive, as long as cleanupOldPackets has not evicted
\* the id from processedPackets.
C12_OneAckWhileRetained ==
    \A n \in Nodes :
        /\ AcksWellFormed(n)
        /\ \A j \in DOMAIN onMessageReceived[n] :
              LET id == onMessageReceived[n][j].id
              IN  id \notin evicted[n] => Cardinality(AcksFor(n, id)) = 1

\* C12 witness: a device delivered a message and built one ACK for it, and
\* a second copy of the packet arrived and was rejected as a duplicate.
C12_Witness ==
    \E n \in Nodes : \E d \in dropped[n] :
        /\ d[2] = "duplicate"
        /\ d[1].id \notin evicted[n]
        /\ Deliveries(n, d[1].id) = 1
        /\ Cardinality(AcksFor(n, d[1].id)) = 1
        /\ \A i \in AcksFor(n, d[1].id) :
              acks[n][i].targetId = d[1].originalSenderId

\* C12 as stated: exactly one ACK packet per delivered MESSAGE packet id,
\* without condition.
C12_Claim ==
    \A n \in Nodes :
        /\ AcksWellFormed(n)
        /\ \A j \in DOMAIN onMessageReceived[n] :
              Cardinality(AcksFor(n, onMessageReceived[n][j].id)) = 1

\* C13 as stated: a message id the receiving device delivered to the
\* application before cleanup() is not delivered again after a later
\* initialize() on the same durable store: no id occurs twice among its
\* onMessageReceived calls.
C13_Claim ==
    \A i, j \in DOMAIN remoteReceived :
        remoteReceived[i] = remoteReceived[j] => i = j

(***************************************************************************)
(* The life of one UnifiedMeshService: initialize(), sends and receives,   *)
(* cleanup(), initialize() again, on one preference store and one          *)
(* IndexedDB database.                                                     *)
(***************************************************************************)
MaxInitialize == 3

MaxStored == 3

\* generateDeviceId(): eight random characters
DeviceIds == {"K3QX81ZP", "7MDW20LA"}

\* loadDeviceIdentity with the stored id ignored.
loadDeviceIdentity_fresh(prefs, generated) ==
    [localDeviceId |-> generated, Preferences |-> generated]

\* UnifiedMeshService.loadDeviceIdentity: the stored id, or a generated one
\* that is stored
loadDeviceIdentity(prefs, generated) ==
    IF prefs # "null"
    THEN [localDeviceId |-> prefs, Preferences |-> prefs]
    ELSE [localDeviceId |-> generated, Preferences |-> generated]

\* OfflineStorageService.saveMessage: put by id when the database is open
saveParties(w, id, senderId, receiverId) ==
    IF ~w.db THEN w
    ELSE [w EXCEPT !.messageParties =
            [k \in DOMAIN @ \cup {id} |->
                IF k = id THEN [senderId |-> senderId,
                                receiverId |-> receiverId]
                ELSE @[k]]]

\* OfflineStorageService.getAllMessages: the ids of the records whose sender
\* or receiver is localDeviceId (the sort by timestamp is left out)
getAllMessages(id) ==
    IF ~db THEN {}
    ELSE {k \in DOMAIN messageParties :
            \/ messageParties[k].senderId = id
            \/ messageParties[k].receiverId = id}

\* UnifiedMeshService.loadCachedMessages
loadCachedMessages == getAllMessages(localDeviceId)

\* UnifiedMeshService.initialize; opened: indexedDB.open succeeds
Unified_initialize(generated, opened) ==
    /\ Len(initializeReturned) < MaxInitialize
    /\ IF isInitialized
       THEN SetW([W0 EXCEPT !.initializeReturned = Append(@, localDeviceId)])
       ELSE LET r == loadDeviceIdentity(Preferences, generated)
            IN  SetW([W0 EXCEPT
                        !.Preferences = r.Preferences,
                        !.localDeviceId = r.localDeviceId,
                        !.db = @ \/ opened,
                        !.isInitialized = TRUE,
                        !.initializeReturned = Append(@, r.localDeviceId)])

\* UnifiedMeshService.sendMessage, its first saveMessage
Unified_sendMessage_saved(id, receiverId) ==
    /\ isInitialized
    /\ id \notin DOMAIN messageParties
    /\ SetW(saveParties(W0, id, localDeviceId, receiverId))

\* LocalMeshService.handleIncomingMessage, lines 193-213, and
\* UnifiedMeshService.handleMessageReceived
Unified_handleMessageReceived(id, from) ==
    /\ isInitialized
    /\ SetW(saveParties(W0, id, from, localDeviceId))

\* UnifiedMeshService.cleanup
Unified_cleanup ==
    /\ isInitialized
    /\ SetW([W0 EXCEPT
                !.isInitialized = FALSE,
                !.devices = <<>>,
                !.storedBeforeCleanup = @ \cup DOMAIN messageParties,
                !.cleanups = @ + 1])

\* UnifiedMeshService.initialize when the preference store throws in
\* loadDeviceIdentity: from Preferences.get (failing = "get"), or from
\* Preferences.set of a generated id when none is stored (failing = "set").
\* The catch branch, lines 128-131, takes a generated id that is not stored,
\* and initialize goes on.
Unified_initialize_catch(failing, generated, opened) ==
    /\ Len(initializeReturned) < MaxInitialize
    /\ ~isInitialized
    /\ failing = "set" => Preferences = "null"
    /\ SetW([W0 EXCEPT
                !.localDeviceId = generated,
                !.db = @ \/ opened,
                !.isInitialized = TRUE,
                !.initializeReturned = Append(@, generated),
                !.identityErrors = @ \cup {Len(initializeReturned) + 1}])

LifecycleNext ==
    \/ \E generated \in DeviceIds, opened \in BOOLEAN :
          Unified_initialize(generated, opened)
    \/ \E id \in 1..MaxStored, receiverId \in {Remote, Third} :
          Unified_sendMessage_saved(id, receiverId)
    \/ \E id \in 1..MaxStored, from \in {Remote, Third} :
          Unified_handleMessageReceived(id, from)
    \/ Unified_cleanup

SpecLifecycle == PipelineInit /\ [][LifecycleNext]_vars

\* ... with a preference store that may throw.
IdentityNext ==
    \/ \E generated \in DeviceIds, opened \in BOOLEAN :
          Unified_initialize(generated, opened)
    \/ \E failing \in {"get", "set"}, generated \in DeviceIds,
          opened \in BOOLEAN :
          Unified_initialize_catch(failing, generated, opened)
    \/ \E id \in 1..MaxStored, receiverId \in {Remote, Third} :
          Unified_sendMessage_saved(id, receiverId)
    \/ Unified_cleanup

SpecIdentity == PipelineInit /\ [][IdentityNext]_vars

LineNodes == <<"A", "B", "C", "D", "E", "F", "G", "H", "I", "J", "K">>

\* broadcastPacket at place k: to this.peers, the devices before and after
LineBroadcast(k, packet) ==
    {[to |-> j, packet |-> packet] : j \in {k - 1, k + 1} \cap DOMAIN LineNodes}

\* The first device builds a MESSAGE packet whose ttl is ttl and sends it.
lineSend(ttl, targetId) ==
    /\ lineSent = <<>>
    /\ LET q == [createPacket(PacketId(1), 1, "MESSAGE", LineNodes[1],
                              targetId, Hello)
                    EXCEPT !.ttl = ttl, !.signature = <<>>]
           packet == [q EXCEPT !.signature = hashPacket(q)]
       IN  SetW([W0 EXCEPT
                   !.lineSent = packet,
                   !.lineNet = LineBroadcast(1, packet),
                   !.lineSeen = [k \in DOMAIN LineNodes |-> {}]])

\* handleReceivedPacket at the device the packet was sent to
lineReceive(link) ==
    LET k == link.to
        n == LineNodes[k]
        packet == link.packet
        w == [W0 EXCEPT !.lineNet = @ \ {link}]
    IN  /\ link \in lineNet
        /\ IF ~verifyPacket(packet) \/ packet.id \in lineSeen[k]
           THEN SetW(w)
           ELSE LET forUs == packet.type = "MESSAGE" /\ ForUs(n, packet)
                    ackPacket == sendAck(n, packet, 100 + k)
                    relayPacket == prepareForRelay(packet, n)
                IN  SetW([w EXCEPT
                            !.lineSeen[k] = @ \cup {packet.id},
                            !.lineReceived =
                                IF forUs THEN @ \cup {k} ELSE @,
                            !.lineNet =
                                @ \cup (IF forUs THEN LineBroadcast(k, ackPacket)
                                        ELSE {})
                                  \cup (IF shouldRelay(packet, n)
                                        THEN LineBroadcast(k, relayPacket)
                                        ELSE {})])

LineNext ==
    \/ \E ttl \in 0..MAX_TTL, targetId \in {LineNodes[Len(LineNodes)], "*"} :
          lineSend(ttl, targetId)
    \/ \E link \in lineNet : lineReceive(link)

SpecLine == PipelineInit /\ [][LineNext]_vars

(***************************************************************************)
(* MeshProtocol.ts, encodePacket and decodePacket: a packet is written as  *)
(* JSON text, the text as UTF-8 bytes, and read back.                      *)
(***************************************************************************)
MaxPayload == 2

\* TextEncoder.encode of the code units from..to (UTF-8): a surrogate pair is
\* one code point of four bytes, a surrogate on its own becomes U+FFFD
RECURSIVE TextEncoder_encode(_, _, _)
TextEncoder_encode(json, from, to) ==
    LET c == json[from]
        high(x) == x >= 55296 /\ x <= 56319
        low(x) == x >= 56320 /\ x <= 57343
        cp == 65536 + (c - 55296) * 1024 + (json[from + 1] - 56320)
    IN  IF from > to THEN <<>>
        ELSE IF from < to
        THEN TextEncoder_encode(json, from, (from + to) \div 2)
             \o TextEncoder_encode(json, (from + to) \div 2 + 1, to)
        ELSE IF c < 128 THEN <<c>>
        ELSE IF c < 2048 THEN <<192 + (c \div 64), 128 + (c % 64)>>
        ELSE IF high(c) /\ from < Len(json) /\ low(json[from + 1])
        THEN <<240 + (cp \div 262144), 128 + ((cp \div 4096) % 64),
               128 + ((cp \div 64) % 64), 128 + (cp % 64)>>
        ELSE IF low(c) /\ from > 1 /\ high(json[from - 1]) THEN <<>>
        ELSE IF high(c) \/ low(c) THEN <<239, 191, 189>>
        ELSE <<224 + (c \div 4096), 128 + ((c \div 64) % 64), 128 + (c % 64)>>

\* encodePacket: JSON.stringify, then TextEncoder.encode
encodePacket(packet) ==
    TextEncoder_encode(Stringify(packet), 1, Len(Stringify(packet)))

\* TextDecoder.decode of the bytes from..to: the code units each well-formed
\* UTF-8 sequence stands for, and one U+FFFD for each byte that begins no
\* sequence and for each sequence that breaks off
RECURSIVE TextDecoder_decode(_, _, _)
TextDecoder_decode(buffer, from, to) ==
    LET \* the length the lead byte at i announces, or 0
        need(i) ==
            IF i < 1 \/ i > Len(buffer) THEN 0
            ELSE IF buffer[i] < 128 THEN 1
            ELSE IF buffer[i] >= 194 /\ buffer[i] <= 223 THEN 2
            ELSE IF buffer[i] >= 224 /\ buffer[i] <= 239 THEN 3
            ELSE IF buffer[i] >= 240 /\ buffer[i] <= 244 THEN 4
            ELSE 0
        \* byte m after the lead byte at i continues its sequence
        cont(i, m) ==
            /\ i + m <= Len(buffer)
            /\ buffer[i + m] >= (IF m = 1 /\ buffer[i] = 224 THEN 160
                                 ELSE IF m = 1 /\ buffer[i] = 240 THEN 144
                                 ELSE 128)
            /\ buffer[i + m] <= (IF m = 1 /\ buffer[i] = 237 THEN 159
                                 ELSE IF m = 1 /\ buffer[i] = 244 THEN 143
                                 ELSE 191)
        inside == \E k \in 1..3 :
                     need(from - k) > k /\ \A m \in 1..k : cont(from - k, m)
        whole == \A m \in 1..(need(from) - 1) : cont(from, m)
        b == buffer[from]
        cp == (b - 240) * 262144 + (buffer[from + 1] - 128) * 4096
              + (buffer[from + 2] - 128) * 64 + (buffer[from + 3] - 128)
              - 65536
    IN  IF from > to THEN <<>>
        ELSE IF from < to
        THEN TextDecoder_decode(buffer, from, (from + to) \div 2)
             \o TextDecoder_decode(buffer, (from + to) \div 2 + 1, to)
        ELSE IF inside THEN <<>>
        ELSE IF need(from) = 0 \/ ~whole THEN <<65533>>
        ELSE CASE need(from) = 1 -> <<b>>
               [] need(from) = 2 ->
                    <<(b - 192) * 64 + (buffer[from + 1] - 128)>>
               [] need(from) = 3 ->
                    <<(b - 224) * 4096 + (buffer[from + 1] - 128) * 64
                      + (buffer[from + 2] - 128)>>
               [] need(from) = 4 ->
                    <<55296 + (cp \div 1024), 56320 + (cp % 1024)>>

\* JSON.parse, a string literal from the character after its opening quote:
\* [ok, val, next].  (The parser binds the position and the value it goes on
\* with as values of a one-element set, so that each is computed once.)
RECURSIVE JsonString(_, _, _)
JsonString(json, i, acc) ==
    LET fail == [ok |-> FALSE, val |-> <<>>, next |-> 0]
        c == json[i]
        e == json[i + 1]
        isHex(x) == x \in 48..57 \/ x \in 97..102 \/ x \in 65..70
        hexVal(x) == IF x <= 57 THEN x - 48 ELSE IF x >= 97 THEN x - 87
                     ELSE x - 55
        plain == c >= 32 /\ c # 92
        escaped ==
            IF i + 1 > Len(json) THEN <<>>
            ELSE CASE e \in {34, 92, 47} -> <<e>>
                   [] e = 98 -> <<8>>
                   [] e = 102 -> <<12>>
                   [] e = 110 -> <<10>>
                   [] e = 114 -> <<13>>
                   [] e = 116 -> <<9>>
                   [] /\ e = 117
                      /\ i + 5 <= Len(json)
                      /\ \A k \in 2..5 : isHex(json[i + k]) ->
                         <<hexVal(json[i + 2]) * 4096
                           + hexVal(json[i + 3]) * 256
                           + hexVal(json[i + 4]) * 16 + hexVal(json[i + 5])>>
                   [] OTHER -> <<>>
        step == IF plain THEN 1 ELSE IF e = 117 THEN 6 ELSE 2
    IN  IF i > Len(json) THEN fail
        ELSE IF c = 34 THEN [ok |-> TRUE, val |-> acc, next |-> i + 1]
        ELSE IF c < 32 \/ (~plain /\ escaped = <<>>) THEN fail
        ELSE CHOOSE r \in {JsonString(json, j, a) :
                                j \in {i + step},
                                a \in {acc \o (IF plain THEN <<c>>
                                               ELSE escaped)}} : TRUE

\* ... a number: digits
RECURSIVE JsonNumber(_, _, _)
JsonNumber(json, i, acc) ==
    IF i <= Len(json) /\ json[i] \in 48..57
    THEN JsonNumber(json, i + 1, acc * 10 + (json[i] - 48))
    ELSE [ok |-> TRUE, val |-> acc, next |-> i]

\* ... an array of strings from the character after its bracket or comma
RECURSIVE JsonArray(_, _, _)
JsonArray(json, i, acc) ==
    LET fail == [ok |-> FALSE, val |-> <<>>, next |-> 0]
        s == JsonString(json, i + 1, <<>>)
        more == s.ok /\ s.next <= Len(json) /\ json[s.next] = 44
    IN  IF i > Len(json) THEN fail
        ELSE IF json[i] = 93 /\ acc = <<>>
        THEN [ok |-> TRUE, val |-> acc, next |-> i + 1]
        ELSE IF json[i] # 34 \/ ~s.ok \/ s.next > Len(json) THEN fail
        ELSE IF json[s.next] = 93
        THEN [ok |-> TRUE, val |-> Append(acc, s.val), next |-> s.next + 1]
        ELSE IF ~more THEN fail
        ELSE CHOOSE r \in {JsonArray(json, j, a) :
                               j \in {s.next + 1},
                               a \in {Append(acc, s.val)}} : TRUE

\* ... the members of an object from the quote of a key to the closing brace,
\* which ends the text
RECURSIVE JsonMembers(_, _, _)
JsonMembers(json, i, acc) ==
    LET fail == [ok |-> FALSE, val |-> <<>>, next |-> 0]
        k == JsonString(json, i + 1, <<>>)
        at == k.next + 1
        v == IF at > Len(json) THEN fail
             ELSE IF json[at] = 34 THEN JsonString(json, at + 1, <<>>)
             ELSE IF json[at] \in 48..57 THEN JsonNumber(json, at, 0)
             ELSE IF json[at] = 91 THEN JsonArray(json, at + 1, <<>>)
             ELSE fail
        now == Append(acc, [key |-> k.val, val |-> v.val])
    IN  IF i > Len(json) \/ json[i] # 34 THEN fail
        ELSE IF ~k.ok \/ k.next > Len(json) \/ json[k.next] # 58 THEN fail
        ELSE IF ~v.ok \/ v.next > Len(json) THEN fail
        ELSE IF json[v.next] = 125 /\ v.next = Len(json)
        THEN [ok |-> TRUE, val |-> now, next |-> v.next + 1]
        ELSE IF json[v.next] # 44 THEN fail
        ELSE CHOOSE r \in {JsonMembers(json, j, a) :
                                 j \in {v.next + 1}, a \in {now}} : TRUE

\* decodePacket: TextDecoder.decode, then JSON.parse of an object whose
\* values are strings, non-negative integers and arrays of strings; null when
\* the text is no such object.  The members keep the order of the text.
decodePacket(buffer) ==
    LET fail == [ok |-> FALSE, val |-> <<>>, next |-> 0]
        parse(json) == IF Len(json) >= 2 /\ json[1] = 123
                       THEN JsonMembers(json, 2, <<>>) ELSE fail
        Names == {"A", "B", "C", "*", "MESSAGE", "ACK", "PING", "ANNOUNCE"}
        name(units) == CHOOSE s \in Names : Chars(s) = units
        known(units) == \E s \in Names : Chars(s) = units
        key_id == <<105, 100>>
        key_type == <<116, 121, 112, 101>>
        key_senderId == <<115, 101, 110, 100, 101, 114, 73, 100>>
        key_originalSenderId ==
            <<111, 114, 105, 103, 105, 110, 97, 108, 83, 101, 110, 100, 101,
              114, 73, 100>>
        key_targetId == <<116, 97, 114, 103, 101, 116, 73, 100>>
        key_payload == <<112, 97, 121, 108, 111, 97, 100>>
        key_timestamp == <<116, 105, 109, 101, 115, 116, 97, 109, 112>>
        key_ttl == <<116, 116, 108>>
        key_hops == <<104, 111, 112, 115>>
        key_signature == <<115, 105, 103, 110, 97, 116, 117, 114, 101>>
        order == <<key_id, key_type, key_senderId, key_originalSenderId,
                   key_targetId, key_payload, key_timestamp, key_ttl,
                   key_hops, key_signature>>
        \* the value JSON.parse returns for the members it read, in the shape
        \* of a packet when they are a packet's
        value(object) ==
            LET at(key) ==
                    {i \in DOMAIN object.val : object.val[i].key = key}
                get(key) ==
                    object.val[CHOOSE i \in at(key) :
                                   \A j \in at(key) : j <= i].val
            IN  IF ~object.ok THEN [null |-> TRUE]
                ELSE IF [i \in DOMAIN object.val |-> object.val[i].key] # order
                THEN [null |-> FALSE, members |-> object.val]
                ELSE IF \E k \in {key_type, key_senderId, key_originalSenderId,
                                  key_targetId} : ~known(get(k))
                THEN [null |-> FALSE, members |-> object.val]
                ELSE [id |-> get(key_id), type |-> name(get(key_type)),
                      senderId |-> name(get(key_senderId)),
                      originalSenderId |-> name(get(key_originalSenderId)),
                      targetId |-> name(get(key_targetId)),
                      payload |-> get(key_payload),
                      timestamp |-> get(key_timestamp), ttl |-> get(key_ttl),
                      hops |-> [i \in DOMAIN get(key_hops) |->
                                   name(get(key_hops)[i])],
                      signature |-> get(key_signature)]
    IN  CHOOSE r \in
            {value(object) :
                object \in {parse(json) :
                    json \in {TextDecoder_decode(buffer, 1, Len(buffer))}}} :
            TRUE

\* A device builds a packet: createPacket with some payload.
codecCreate(type, targetId, payload) ==
    /\ codecStage = "none"
    /\ SetW([W0 EXCEPT
                !.codecStage = "created",
                !.codecPacket = createPacket(PacketId(1), 1, type, "A",
                                             targetId, payload)])

\* broadcastPacket: encodePacket(packet)
codecEncode ==
    /\ codecStage = "created"
    /\ SetW([W0 EXCEPT !.codecStage = "encoded",
                       !.codecBuffer = encodePacket(codecPacket)])

\* The receiving transport: decodePacket(buffer)
codecDecode ==
    /\ codecStage = "encoded"
    /\ SetW([W0 EXCEPT !.codecStage = "decoded",
                       !.codecDecoded = decodePacket(codecBuffer)])

\* The payloads of up to len code units out of: a letter, the quote, the
\* backslash, a line feed, two characters beyond ASCII, a high and a low
\* surrogate.
RECURSIVE Payloads(_)
Payloads(len) ==
    LET PayloadUnits == {97, 34, 92, 10, 233, 8364, 55357, 56832}
    IN  IF len = 0 THEN {<<>>}
        ELSE Payloads(len - 1)
             \cup {Append(s, c) : s \in Payloads(len - 1), c \in PayloadUnits}

CodecNext ==
    \/ \E type \in {"MESSAGE", "ACK"}, targetId \in {"B", "*"},
          payload \in Payloads(MaxPayload) :
          codecCreate(type, targetId, payload)
    \/ codecEncode
    \/ codecDecode

SpecCodec == PipelineInit /\ [][CodecNext]_vars

\* C20: for a packet that passes verifyPacket, decodePacket(encodePacket(p))
\* has the same value as p in every field and passes verifyPacket as well.
C20_RoundTrip ==
    (codecStage = "decoded" /\ verifyPacket(codecPacket)) =>
        /\ codecDecoded = codecPacket
        /\ verifyPacket(codecDecoded)

\* C20 witness: a packet that passes verifyPacket, whose payload is a high
\* surrogate on its own followed by a quote, has been encoded and decoded.
C20_Witness ==
    /\ codecStage = "decoded"
    /\ verifyPacket(codecPacket)
    /\ codecPacket.payload = <<55357, 34>>
    /\ Len(codecBuffer) > Len(Stringify(codecPacket)) - 5

(***************************************************************************)
(* shouldRelay as a function of its arguments                              *)
(***************************************************************************)
MaxHops == 2

\* The hop lists of up to len devices.
RECURSIVE HopLists(_)
HopLists(len) ==
    IF len = 0 THEN {<<>>}
    ELSE HopLists(len - 1)
         \cup {Append(h, n) : h \in HopLists(len - 1), n \in Nodes}

\* A call shouldRelay(packet, localDeviceId); the fields of packet that the
\* function does not read are those of a message from its original sender.
shouldRelay_called(ttl, originalSenderId, hops, targetId, localId) ==
    LET packet ==
            [createPacket(PacketId(1), 1, "MESSAGE", originalSenderId,
                          targetId, Hello)
                EXCEPT !.ttl = ttl, !.hops = hops]
    IN  /\ relayArgs = [null |-> TRUE]
        /\ SetW([W0 EXCEPT
                !.relayArgs = [packet |-> packet,
                               localDeviceId |-> localId],
                !.relayResult = shouldRelay(packet, localId)])

DecisionNext ==
    \E ttl \in (-1..2) \cup {MAX_TTL}, originalSenderId \in Nodes,
       hops \in HopLists(MaxHops), targetId \in Nodes \cup {"*"},
       localId \in Nodes :
        shouldRelay_called(ttl, originalSenderId, hops, targetId, localId)

SpecDecision == PipelineInit /\ [][DecisionNext]_vars

(***************************************************************************)
(* The device records: UnifiedMeshService.devices (registry.devices),      *)
(* LocalMeshService.discoveredDevices (local), GlobalMeshRelayService      *)
(* .globalDevices (global) and MultiTransportMeshService.discoveredDevices *)
(* (mesh), for one remote device.  A record is a function of the keys the  *)
(* object has; registry.merged holds, for each merging function, its last  *)
(* merge of an observation into a record that was there.                   *)
(***************************************************************************)
MaxObserved == 4

\* "REMOTE01"
RemoteId == <<82, 69, 77, 79, 84, 69, 48, 49>>

\* The names an announcement can carry: none, "Alice", "MeshUser-AB12".
AnnouncedNames ==
    {<<>>, <<65, 108, 105, 99, 101>>,
     <<77, 101, 115, 104, 85, 115, 101, 114, 45, 65, 66, 49, 50>>}

\* name.startsWith('MeshUser-') || name.startsWith('Device-')
Generic(name) ==
    LET startsWith(prefix) ==
            /\ Len(name) >= Len(prefix)
            /\ SubSeq(name, 1, Len(prefix)) = prefix
    IN  \/ startsWith(<<77, 101, 115, 104, 85, 115, 101, 114, 45>>)
        \/ startsWith(<<68, 101, 118, 105, 99, 101, 45>>)

\* name || `Device-${id.slice(0, 4)}`
OrDeviceName(name, id) ==
    IF name # <<>> THEN name
    ELSE <<68, 101, 118, 105, 99, 101, 45>> \o SubSeq(id, 1, 4)

\* a || b on an optional boolean field: true iff one of them is there and true
Truthy(device, key) == key \in DOMAIN device /\ device[key]

\* this.events[event]?.(device): registry.emitted[id] counts the
\* onDeviceDiscovered events for id since initialize and holds what the
\* handlers emitted for id after the first of them
Emit(r, id, event) ==
    IF id \in DOMAIN r.emitted
    THEN [r EXCEPT !.emitted[id] =
            [discovered |-> @.discovered
                            + (IF event = "onDeviceDiscovered" THEN 1 ELSE 0),
             later |-> @.later \cup {event}]]
    ELSE IF event = "onDeviceDiscovered"
    THEN [r EXCEPT !.emitted = (id :> [discovered |-> 1, later |-> {}]) @@ @]
    ELSE r

\* UnifiedMeshService.handleDeviceDiscovered, the record it keeps
Registry_handleDeviceDiscovered(r, device, transport, now) ==
    IF device.id \notin DOMAIN r.devices
    THEN LET new == [device EXCEPT !.connectionType = transport]
         IN  Emit([r EXCEPT !.devices = (device.id :> new) @@ @,
                            !.saved = (device.id :> new) @@ @],
                  device.id, "onDeviceDiscovered")
    ELSE LET existing == r.devices[device.id]
             merged ==
                 [signalStrength |-> Max(existing.signalStrength,
                                         device.signalStrength),
                  isConnected |-> existing.isConnected \/ device.isConnected,
                  isOnline |-> Truthy(existing, "isOnline")
                               \/ Truthy(device, "isOnline"),
                  lastSeen |-> now] @@ device @@ existing
         IN  Emit([r EXCEPT
                    !.devices = (device.id :> merged) @@ @,
                    !.merged = ("handleDeviceDiscovered" :> [
                                existing |-> existing, device |-> device,
                                transport |-> transport, merged |-> merged,
                                now |-> now]) @@ @],
                  device.id, "onDeviceUpdated")

\* UnifiedMeshService.handleDeviceUpdated
Registry_handleDeviceUpdated(r, device, now) ==
    IF device.id \notin DOMAIN r.devices THEN Emit(r, device.id, "none")
    ELSE LET existing == r.devices[device.id]
             merged == [lastSeen |-> now] @@ device @@ existing
         IN  Emit([r EXCEPT
                    !.devices = (device.id :> merged) @@ @,
                    !.merged = ("handleDeviceUpdated" :> [
                                existing |-> existing, device |-> device,
                                transport |-> device.connectionType,
                                merged |-> merged, now |-> now]) @@ @],
                  device.id, "onDeviceUpdated")

\* MultiTransportMeshService.addDiscoveredDevice with the object replaced by
\* the new observation.
addDiscoveredDevice_replaced(r, device, now) ==
    [r EXCEPT
        !.mesh = (device.id :> device) @@ @,
        !.merged = IF device.id \in DOMAIN r.mesh
                   THEN ("addDiscoveredDevice" :> [
                         existing |-> r.mesh[device.id], device |-> device,
                         transport |-> device.connectionType,
                         merged |-> device, now |-> now]) @@ @
                   ELSE @]

\* MultiTransportMeshService.addDiscoveredDevice
addDiscoveredDevice(r, device, now) ==
    IF device.id \in DOMAIN r.mesh
    THEN LET existing == r.mesh[device.id]
             updated ==
                 [signalStrength |-> Max(existing.signalStrength,
                                         device.signalStrength),
                  lastSeen |-> now,
                  isConnected |-> existing.isConnected \/ device.isConnected]
                 @@ device @@ existing
         IN  [r EXCEPT
                !.mesh = (device.id :> updated) @@ @,
                !.merged = ("addDiscoveredDevice" :> [
                            existing |-> existing, device |-> device,
                            transport |-> device.connectionType,
                            merged |-> updated, now |-> now]) @@ @]
    ELSE [r EXCEPT !.mesh = (device.id :> device) @@ @]

\* What every handler below does first: one more observation, at its time.
Observed(now) ==
    [registry EXCEPT !.observed = @ + 1, !.now = now]

\* LocalMeshService.handlePresence for an announcement with this name, and
\* the handler UnifiedMeshService has set for the event it emits.
Registry_handlePresence(name, now) ==
    LET deviceName ==
            IF name = <<>> \/ Generic(name) THEN OrDeviceName(<<>>, RemoteId)
            ELSE name
        device == [id |-> RemoteId, name |-> deviceName,
                   signalStrength |-> 95, isConnected |-> TRUE,
                   isOnline |-> TRUE, lastSeen |-> now,
                   connectionType |-> "wifi"]
        isNew == RemoteId \notin DOMAIN registry.local
        r == [Observed(now) EXCEPT !.local = (RemoteId :> device) @@ @,
                                   !.saved = (RemoteId :> device) @@ @]
    IN  /\ registry.observed < MaxObserved
        /\ SetW([W0 EXCEPT !.registry =
                IF isNew
                THEN Registry_handleDeviceDiscovered(r, device, "wifi", now)
                ELSE Registry_handleDeviceUpdated(r, device, now)])

\* GlobalMeshRelayService.handlePresenceSync for a presence state that holds
\* the remote device
Registry_handlePresenceSync(name, now) ==
    LET device == [id |-> RemoteId, name |-> OrDeviceName(name, RemoteId),
                   signalStrength |-> 90, isConnected |-> TRUE,
                   isOnline |-> TRUE, lastSeen |-> now,
                   connectionType |-> "network"]
        r == [Observed(now) EXCEPT !.global = (RemoteId :> device) @@ @]
    IN  /\ registry.observed < MaxObserved
        /\ SetW([W0 EXCEPT !.registry =
                Registry_handleDeviceDiscovered(r, device, "network", now)])

\* GlobalMeshRelayService.handlePresenceLeave
Registry_handlePresenceLeave(now) ==
    /\ registry.observed < MaxObserved
    /\ RemoteId \in DOMAIN registry.global
    /\ LET device == [registry.global[RemoteId] EXCEPT
                         !.isOnline = FALSE, !.isConnected = FALSE]
           r == [Observed(now) EXCEPT !.global = (RemoteId :> device) @@ @]
       IN  SetW([W0 EXCEPT !.registry =
                    Registry_handleDeviceUpdated(r, device, now)])

\* MultiTransportMeshService.handleDiscoveryPacket for a payload that parses,
\* with or without a name and a signal strength
Registry_handleDiscoveryPacket(name, signalStrength, fromTransport, now) ==
    LET device == [id |-> RemoteId, name |-> OrDeviceName(name, RemoteId),
                   signalStrength |-> IF signalStrength = 0 THEN 70
                                      ELSE signalStrength,
                   isConnected |-> TRUE, lastSeen |-> now,
                   connectionType |-> fromTransport]
    IN  /\ registry.observed < MaxObserved
        /\ SetW([W0 EXCEPT !.registry =
                addDiscoveredDevice(Observed(now), device, now)])

\* WebRTCTransport.handleDiscoveryMessage for an ANNOUNCE
Registry_handleDiscoveryMessage(name, now) ==
    LET device == [id |-> RemoteId,
                   name |-> IF name # <<>> THEN name
                            ELSE <<87, 101, 98, 82, 84, 67, 45>>
                                 \o SubSeq(RemoteId, 1, 4),
                   signalStrength |-> 85, isConnected |-> FALSE,
                   lastSeen |-> now, connectionType |-> "network"]
    IN  /\ registry.observed < MaxObserved
        /\ SetW([W0 EXCEPT !.registry =
                addDiscoveredDevice(Observed(now), device, now)])

\* the 'connect' handler of a WebRTC peer
Registry_connect(now) ==
    /\ registry.observed < MaxObserved
    /\ RemoteId \in DOMAIN registry.mesh
    /\ LET updated == [registry.mesh[RemoteId] EXCEPT
                          !.isConnected = TRUE, !.lastSeen = now]
       IN  SetW([W0 EXCEPT !.registry =
                    addDiscoveredDevice(Observed(now), updated, now)])

\* Date.now() of a handler: later than that of the handler before it.
Nows == {registry.now + 1}

RegistryNext ==
    \/ \E name \in AnnouncedNames, now \in Nows :
          Registry_handlePresence(name, now)
    \/ \E name \in AnnouncedNames, now \in Nows :
          Registry_handlePresenceSync(name, now)
    \/ \E now \in Nows : Registry_handlePresenceLeave(now)
    \/ \E name \in AnnouncedNames, signalStrength \in {0, 90},
           fromTransport \in {"bluetooth", "webrtc"}, now \in Nows :
          Registry_handleDiscoveryPacket(name, signalStrength, fromTransport,
                                         now)
    \/ \E name \in AnnouncedNames, now \in Nows :
          Registry_handleDiscoveryMessage(name, now)
    \/ \E now \in Nows : Registry_connect(now)

SpecRegistry == PipelineInit /\ [][RegistryNext]_vars

(***************************************************************************)
(* SmartTransportSelectorService.recordSuccess and recordFailure, called   *)
(* in any order for two of the transports; recorded.last holds, for each   *)
(* of the two functions, its last call and the metrics before and after.   *)
(***************************************************************************)
MaxRecorded == 15

recordSuccess_called(type) ==
    /\ recorded.calls < MaxRecorded
    /\ LET w == recordSuccess(W0, type)
       IN  SetW([w EXCEPT
                !.recorded = [@ EXCEPT
                              !.calls = @ + 1,
                              !.last = ("recordSuccess" :>
                                           [type |-> type, old |-> metrics,
                                            new |-> w.metrics]) @@ @]])

recordFailure_called(type) ==
    /\ recorded.calls < MaxRecorded
    /\ LET w == recordFailure(W0, type)
       IN  SetW([w EXCEPT
                !.recorded = [@ EXCEPT
                              !.calls = @ + 1,
                              !.last = ("recordFailure" :>
                                           [type |-> type, old |-> metrics,
                                            new |-> w.metrics]) @@ @]])

ReliabilityNext ==
    \/ \E type \in {"wifi", "network"} : recordSuccess_called(type)
    \/ \E type \in {"wifi", "network"} : recordFailure_called(type)

SpecReliability == PipelineInit /\ [][ReliabilityNext]_vars

\* ---- selectTransportForPeer, called between changes of availability,
\* successes, failures and the passing of time; recorded.decision holds what
\* the last call for a peer returned and the metrics it was called with.
MaxScored == 2

updateTransportAvailability_called(type, isAvailable, deviceCount) ==
    /\ metrics[type].isAvailable # isAvailable
    /\ SetW(updateTransportAvailability(W0, type, isAvailable, deviceCount))

selectTransportForPeer_called(peerId) ==
    /\ peerId # Local
    /\ SetW([W0 EXCEPT !.recorded.decision =
            (peerId :> [metrics |-> metrics,
                        peerTransports |-> peerTransports,
                        result |-> selectTransportForPeer(W0, peerId)])
            @@ @])

SelectorNext ==
    \/ \E type \in {"webrtc", "network"}, isAvailable \in BOOLEAN :
          updateTransportAvailability_called(type, isAvailable, 1)
    \/ \E type \in {"webrtc", "network"} :
          recorded.calls < MaxScored /\ recordSuccess_called(type)
    \/ \E type \in {"webrtc", "network"} :
          recorded.calls < MaxScored /\ recordFailure_called(type)
    \/ timePasses
    \/ selectTransportForPeer_called(Remote)

SpecSelector == PipelineInit /\ [][SelectorNext]_vars

(***************************************************************************)
(* syncPendingMessages of a sending device.  upload.messages is its        *)
(* 'messages' store (status and synced flag by id), upload.mesh_messages   *)
(* the status of the relay records by message_id, and upload.last the      *)
(* relay records before and after the last run of syncPendingMessages.     *)
(* The ids 1 and 2 are those UnifiedMeshService.sendMessage generates, 11  *)
(* and 12 those GlobalMeshRelayService.sendMessage generates for its       *)
(* records.                                                                *)
(***************************************************************************)
MaxSyncs == 2

\* getUnsyncedMessages that lists the records whose synced flag is false.
Upload_getUnsyncedMessages_listed(u) ==
    [rejected |-> FALSE,
     pending |-> IF u.db = "open"
                 THEN {id \in DOMAIN u.messages : ~u.messages[id].synced}
                 ELSE {}]

\* OfflineStorageService.getUnsyncedMessages: [] without a database; with
\* one, IDBKeyRange.only(false) throws DataError (a boolean is not a valid
\* key) in the executor of the promise, which rejects
Upload_getUnsyncedMessages(u) ==
    [rejected |-> u.db = "open", pending |-> {}]

\* syncPendingMessages: the upsert of each pending message with status
\* 'sent', and markMessageSynced
syncPendingMessages(u) ==
    IF ~u.isOnline THEN u
    ELSE LET got == Upload_getUnsyncedMessages(u)
         IN  IF got.rejected THEN u
             ELSE [u EXCEPT
                     !.mesh_messages =
                         [id \in got.pending |-> "sent"] @@ @,
                     !.messages =
                         [id \in got.pending |->
                             [u.messages[id] EXCEPT !.synced = TRUE]] @@ @]

\* offlineStorage.initialize: the database opens or the request fails
Upload_initialize(opened) ==
    /\ upload.db = "new"
    /\ SetW([W0 EXCEPT !.upload.db = IF opened THEN "open" ELSE "none"])

\* the connectivity monitor of the relay
Upload_connectivity ==
    /\ upload.db # "new"
    /\ SetW([W0 EXCEPT !.upload.isOnline = ~@])

\* UnifiedMeshService.sendMessage: the message is saved, not synced; over
\* the relay, GlobalMeshRelayService.sendMessage inserts a record under an
\* id of its own
Upload_sendMessage(id, viaRelay) ==
    /\ upload.db # "new"
    /\ id \notin DOMAIN upload.messages
    /\ id + 10 \notin DOMAIN upload.mesh_messages
    /\ viaRelay => upload.isOnline
    /\ SetW([W0 EXCEPT
           !.upload.messages =
               IF upload.db = "open"
               THEN (id :> [status |-> "sending", synced |-> FALSE]) @@ @
               ELSE @,
           !.upload.mesh_messages =
               IF viaRelay THEN (id + 10 :> "sent") @@ @ ELSE @])

\* the receiver's markMessageDelivered for a record of this device
Upload_markMessageDelivered(id) ==
    /\ id \in DOMAIN upload.mesh_messages
    /\ upload.mesh_messages[id] = "sent"
    /\ SetW([W0 EXCEPT !.upload.mesh_messages[id] = "delivered"])

\* offlineStorage.updateMessageStatus: saveMessage(message) stores the
\* record with the status and synced = false
Upload_updateMessageStatus(id, status) ==
    /\ upload.db = "open"
    /\ id \in DOMAIN upload.messages
    /\ upload.messages[id].status # status
    /\ SetW([W0 EXCEPT !.upload.messages[id] =
                           [status |-> status, synced |-> FALSE]])

\* the interval of startPeriodicSync calls syncPendingMessages
Upload_syncPendingMessages ==
    /\ upload.db # "new"
    /\ upload.calls < MaxSyncs
    /\ LET u == syncPendingMessages(upload)
       IN  SetW([W0 EXCEPT !.upload =
               [u EXCEPT !.calls = @ + 1,
                         !.last = [before |-> upload.mesh_messages,
                                   after |-> u.mesh_messages,
                                   messages |-> upload.messages,
                                   isOnline |-> upload.isOnline]]])

UploadNext ==
    \/ \E opened \in BOOLEAN : Upload_initialize(opened)
    \/ Upload_connectivity
    \/ \E id \in 1..2, viaRelay \in BOOLEAN : Upload_sendMessage(id, viaRelay)
    \/ \E id \in {1, 2, 11, 12} : Upload_markMessageDelivered(id)
    \/ \E id \in 1..2, status \in {"sent", "delivered", "failed"} :
          Upload_updateMessageStatus(id, status)
    \/ Upload_syncPendingMessages

SpecUpload == PipelineInit /\ [][UploadNext]_vars

\* ---- the 'messages' store under saveMessage and updateMessageStatus
MaxSaved == 3

\* offlineStorage.saveMessage(message, synced), as the handlers of received
\* messages (synced) and the senders (not synced) call it
saveMessage_called(id, status, synced) ==
    /\ umInit = "storage"
    /\ Len(stored) < MaxSaved
    /\ SetW(saveMessage(W0, id, Remote, status, synced))

\* offlineStorage.updateMessageStatus(messageId, status)
updateMessageStatus_called(id, status) ==
    /\ umInit = "storage"
    /\ Len(stored) + Len(idb["messages"]) < MaxSaved
    /\ SetW(updateMessageStatus(W0, id, status, <<>>))

StatusNext ==
    \/ Unified_initialize_storage
    \/ \E id \in 1..2, status \in {"sending", "sent"}, synced \in BOOLEAN :
          saveMessage_called(id, status, synced)
    \/ \E id \in 1..2, status \in {"delivered", "failed"} :
          updateMessageStatus_called(id, status)
    \/ updateMessageStatus_resumed

SpecStatus == PipelineInit /\ [][StatusNext]_vars

(***************************************************************************)
(* The PRESENCE messages of LocalMeshService instances that share the      *)
(* BroadcastChannel.  presence.channel is the set of instances whose       *)
(* channel is open, discoveredDevices[n] the ids in the map of n,          *)
(* posted[<<from, to>>] the number of PRESENCE messages of from that to    *)
(* has yet to handle, and responded[n] the last announcement that n made   *)
(* from handlePresence.                                                    *)
(***************************************************************************)
MaxIntervals == 3

Instances == {"A", "B"}

\* announcePresence: a postMessage reaches every other open channel
announcePresence(p, n) ==
    [p EXCEPT !.posted =
        [pair \in DOMAIN @ \cup {<<n, m>> : m \in p.channel \ {n}} |->
            IF pair[1] = n /\ pair[2] \in p.channel \ {n}
            THEN (IF pair \in DOMAIN @ THEN @[pair] ELSE 0) + 1
            ELSE @[pair]]]

\* handlePresence that answers every announcement.
handlePresence_always(p, n, from) ==
    announcePresence(
        [p EXCEPT !.discoveredDevices[n] = @ \cup {from},
                  !.responded = (n :> [to |-> from,
                                       isNew |-> from \notin
                                                 p.discoveredDevices[n]])
                                @@ @],
        n)

\* handlePresence of instance n for an announcement of from
handlePresence(p, n, from) ==
    LET isNew == from \notin p.discoveredDevices[n]
        q == [p EXCEPT !.discoveredDevices[n] = @ \cup {from}]
    IN  IF isNew
        THEN announcePresence(
                 [q EXCEPT !.responded =
                     (n :> [to |-> from, isNew |-> isNew]) @@ @], n)
        ELSE q

\* LocalMeshService.initialize up to setupBroadcastChannel: the cached
\* devices are loaded, the channel is opened and the presence announced
setupBroadcastChannel(n, cached) ==
    /\ n \notin presence.channel
    /\ SetW([W0 EXCEPT !.presence =
            announcePresence(
                [presence EXCEPT
                    !.channel = @ \cup {n},
                    !.discoveredDevices = (n :> cached) @@ @], n)])

\* the message event of the channel of n
onmessage(n, from) ==
    /\ <<from, n>> \in DOMAIN presence.posted
    /\ presence.posted[<<from, n>>] > 0
    /\ SetW([W0 EXCEPT !.presence =
            handlePresence([presence EXCEPT !.posted[<<from, n>>] = @ - 1],
                           n, from)])

\* the interval of startPresenceAnnouncements: announcePresence, then
\* checkPeerStatus, which removes the devices in lost: those it has not
\* heard of for a minute
presenceInterval(n, lost) ==
    /\ n \in presence.channel
    /\ presence.intervals < MaxIntervals
    /\ SetW([W0 EXCEPT !.presence =
            [announcePresence(presence, n) EXCEPT
                !.intervals = @ + 1,
                !.discoveredDevices[n] = @ \ lost]])

PresenceNext ==
    \/ \E n \in Instances, cached \in SUBSET Instances :
          /\ n \notin cached
          /\ setupBroadcastChannel(n, cached)
    \/ \E n \in Instances, from \in Instances : onmessage(n, from)
    \/ \E n \in Instances, lost \in SUBSET Instances :
          presenceInterval(n, lost)

SpecPresence == PipelineInit /\ [][PresenceNext]_vars

\* The event loop runs the message event of every message posted to an open
\* channel.
PresenceFairness ==
    \A n \in Instances, from \in Instances : WF_vars(onmessage(n, from))

SpecPresenceFair == SpecPresence /\ PresenceFairness

(***************************************************************************)
(* The scan of UnifiedMeshServiceImpl.  scan.scanInterval is the id of the *)
(* interval in this.scanInterval (0 for null), timers[i] the scanCount of  *)
(* the live interval i, awaiting the calls of startScanning suspended in   *)
(* await globalMeshRelay.broadcastDiscovery(), and emitted the last        *)
(* argument of onScanStateChanged.                                         *)
(***************************************************************************)
MaxScans == 3
ScanBursts == 5

\* stopScanning
stopScanning(sc) ==
    [sc EXCEPT !.timers = [i \in DOMAIN @ \ {sc.scanInterval} |-> @[i]],
               !.scanInterval = 0,
               !.isScanning = FALSE,
               !.emitted = <<FALSE>>]

\* startScanning from the setInterval on: the interval of call c is set
Scan_setInterval(sc, c) ==
    [sc EXCEPT !.scanInterval = c, !.timers = (c :> 0) @@ @]

\* startScanning, up to the await when the relay is online
startScanning(relayOnline) ==
    /\ scan.calls < MaxScans
    /\ LET c == scan.calls + 1
           sc == [scan EXCEPT !.calls = c] IN
       SetW([W0 EXCEPT !.scan =
           IF scan.isScanning THEN sc
           ELSE LET on == [sc EXCEPT !.isScanning = TRUE,
                                     !.emitted = <<TRUE>>]
                IN  IF relayOnline
                    THEN [on EXCEPT !.awaiting = @ \cup {c}]
                    ELSE Scan_setInterval(on, c)])

\* broadcastDiscovery has settled: startScanning goes on
startScanning_resumed(c) ==
    /\ c \in scan.awaiting
    /\ SetW([W0 EXCEPT !.scan =
           Scan_setInterval([scan EXCEPT !.awaiting = @ \ {c}], c)])

\* the callback of the interval i: a burst, and after five stopScanning.
\* scanCount is only compared with 5, so it is not counted further.
scanIntervalFires(i) ==
    /\ i \in DOMAIN scan.timers
    /\ LET scanCount == IF scan.timers[i] < ScanBursts
                        THEN scan.timers[i] + 1 ELSE ScanBursts
           sc == [scan EXCEPT !.timers[i] = scanCount]
       IN  SetW([W0 EXCEPT !.scan =
               IF scanCount >= ScanBursts THEN stopScanning(sc) ELSE sc])

\* stopScanning, called by the user of the service
stopScanning_called ==
    /\ scan.isScanning
    /\ SetW([W0 EXCEPT !.scan = stopScanning(scan)])

\* cleanup: clearInterval(this.scanInterval)
Scan_cleanup ==
    /\ ~scan.cleaned
    /\ SetW([W0 EXCEPT !.scan =
           [scan EXCEPT
               !.timers = [i \in DOMAIN @ \ {scan.scanInterval} |-> @[i]],
               !.cleaned = TRUE]])

ScanNext ==
    \/ \E relayOnline \in BOOLEAN : startScanning(relayOnline)
    \/ \E c \in 1..MaxScans : startScanning_resumed(c)
    \/ \E i \in 1..MaxScans : scanIntervalFires(i)
    \/ stopScanning_called
    \/ Scan_cleanup

SpecScan == PipelineInit /\ [][ScanNext]_vars

\* Timers fire and the request of broadcastDiscovery settles.
ScanFairness ==
    /\ \A i \in 1..MaxScans : WF_vars(scanIntervalFires(i))
    /\ \A c \in 1..MaxScans : WF_vars(startScanning_resumed(c))

SpecScanFair == SpecScan /\ ScanFairness

(***************************************************************************)
(* sendMessage calls of one device that run at the same time.  The only    *)
(* connections the repository registers are those of WebRTCMeshService,    *)
(* whose send is synchronous: it returns undefined or throws what          *)
(* peer.send throws.  `await undefined` resumes the caller from the        *)
(* microtask queue, in the order of suspension; a send that throws is      *)
(* caught inside the loop, which goes on to the next peer at once.         *)
(* emission.microtasks is that queue (call and position in this.peers),    *)
(* emission.sends the sends that returned, in order.                       *)
(***************************************************************************)
MaxCalls == 3

\* this.peers of the sending device, in the order of the Map
Connected == <<"A", "B", "C">>

\* the loop of broadcastPacket from entry pos on, for the packet of call c:
\* the sends to the peers in throws throw, the first other send returns and
\* the call is suspended in its await
broadcastPacketFrom(e, c, pos, throws) ==
    LET reached == {i \in pos..Len(Connected) : Connected[i] \notin throws}
    IN  IF reached = {} THEN e
        ELSE LET i == CHOOSE j \in reached : \A k \in reached : j <= k
             IN  [e EXCEPT !.sends = Append(@, <<c, Connected[i]>>),
                           !.microtasks = Append(@, <<c, i>>)]

\* sendMessage is called: createPacket, then broadcastPacket up to its
\* first await
Emission_sendMessage(throws) ==
    /\ emission.calls < MaxCalls
    /\ SetW([W0 EXCEPT !.emission =
           broadcastPacketFrom([emission EXCEPT !.calls = @ + 1],
                               emission.calls + 1, 1, throws)])

\* the first microtask runs: broadcastPacket goes on after its await
Emission_resume(throws) ==
    /\ emission.microtasks # <<>>
    /\ LET t == Head(emission.microtasks) IN
       SetW([W0 EXCEPT !.emission =
           broadcastPacketFrom([emission EXCEPT !.microtasks = Tail(@)],
                               t[1], t[2] + 1, throws)])

EmissionNext ==
    \/ \E throws \in SUBSET {"A", "B"} : Emission_sendMessage(throws)
    \/ \E throws \in SUBSET {"B", "C"} : Emission_resume(throws)

SpecEmission == PipelineInit /\ [][EmissionNext]_vars

\* ---- the timeout sweeps.  Times are in seconds; registry.swept holds, for
\* each sweep, the records before and after its last run and the ids for
\* which it emitted onDeviceLost.

\* handleDeviceLost that deletes the record, as the sweeps of the transports
\* do with theirs.
Registry_handleDeviceLost_deleted(r, deviceId) ==
    [r EXCEPT !.devices = [id \in DOMAIN @ \ {deviceId} |-> @[id]]]

\* UnifiedMeshService.handleDeviceLost
Registry_handleDeviceLost(r, deviceId) ==
    IF deviceId \notin DOMAIN r.devices THEN r
    ELSE [r EXCEPT !.devices[deviceId] =
                      [isOnline |-> FALSE, isConnected |-> FALSE] @@ @]

\* LocalMeshService.checkPeerStatus, called by the interval of
\* startPresenceAnnouncements, and the handlers UnifiedMeshService has set for its
\* events.  The entry of this.peers has the lastSeen of the device record:
\* handlePresence sets both; a device loaded from the cache has no entry.
Registry_checkPeerStatus(now) ==
    LET timeout == 15
        removeTimeout == 60
        r == Observed(now)
        device == r.local[RemoteId]
        updated == [isOnline |-> FALSE, isConnected |-> FALSE] @@ device
        sweep(after, lost) ==
            ("checkPeerStatus" :> [before |-> r.local, after |-> after,
                                   lost |-> lost]) @@ r.swept
    IN  /\ registry.observed < MaxObserved
        /\ RemoteId \in DOMAIN registry.local
        /\ "cached" \notin DOMAIN registry.local[RemoteId]
        /\ SetW([W0 EXCEPT !.registry =
                IF now - device.lastSeen > removeTimeout
                THEN Registry_handleDeviceLost(
                         [r EXCEPT !.local = <<>>,
                                   !.swept = sweep(<<>>, {RemoteId})],
                         RemoteId)
                ELSE IF now - device.lastSeen > timeout /\ device.isOnline
                THEN Registry_handleDeviceUpdated(
                         [r EXCEPT !.local = (RemoteId :> updated) @@ @,
                                   !.swept = sweep((RemoteId :> updated)
                                                   @@ r.local, {})],
                         updated, now)
                ELSE [r EXCEPT !.swept = sweep(r.local, {})]])

\* MultiTransportMeshService.updateDeviceStatuses, called by the interval of
\* startHeartbeat
Registry_updateDeviceStatuses(now) ==
    LET timeout == 60
        removeTimeout == 180
        r == Observed(now)
        device == r.mesh[RemoteId]
        updated == [isConnected |-> FALSE] @@ device
        sweep(after, lost) ==
            ("updateDeviceStatuses" :> [before |-> r.mesh, after |-> after,
                                        lost |-> lost]) @@ r.swept
    IN  /\ registry.observed < MaxObserved
        /\ RemoteId \in DOMAIN registry.mesh
        /\ SetW([W0 EXCEPT !.registry =
                IF now - device.lastSeen > removeTimeout
                THEN [r EXCEPT !.mesh = <<>>,
                               !.swept = sweep(<<>>, {RemoteId})]
                ELSE IF now - device.lastSeen > timeout /\ device.isConnected
                THEN [r EXCEPT !.mesh = (RemoteId :> updated) @@ @,
                               !.swept = sweep((RemoteId :> updated)
                                               @@ r.mesh, {})]
                ELSE [r EXCEPT !.swept = sweep(r.mesh, {})]])

\* The time between a handler and the sweep after it: an interval of the
\* sweep, or longer than a timeout of it.
SweepTimes == {registry.now + d : d \in {5, 20, 70, 200}}

SweepNext ==
    \/ \E now \in Nows :
          Registry_handlePresence(<<65, 108, 105, 99, 101>>, now)
    \/ \E now \in Nows :
          Registry_handleDiscoveryPacket(<<65, 108, 105, 99, 101>>, 0,
                                         "bluetooth", now)
    \/ \E now \in SweepTimes : Registry_checkPeerStatus(now)
    \/ \E now \in SweepTimes : Registry_updateDeviceStatuses(now)

SpecSweep == PipelineInit /\ [][SweepNext]_vars

\* ---- the events of the unified service between initialize and cleanup

\* UnifiedMeshService.initialize and LocalMeshService.initialize: the cached
\* devices are loaded from the 'devices' store.  The local mesh has no entry
\* in this.peers for them: its records are marked as cached.
Registry_initialize ==
    /\ ~registry.isInitialized
    /\ SetW([W0 EXCEPT !.registry =
           [registry EXCEPT
               !.isInitialized = TRUE,
               !.devices = registry.saved,
               !.local = [id \in DOMAIN registry.saved |->
                             [cached |-> TRUE] @@ registry.saved[id]],
               !.emitted = <<>>]])

\* UnifiedMeshService.cleanup with the cleanup of localMesh and
\* globalMeshRelay
Registry_cleanup ==
    /\ registry.isInitialized
    /\ SetW([W0 EXCEPT !.registry =
           [registry EXCEPT !.isInitialized = FALSE,
                            !.devices = <<>>,
                            !.local = <<>>,
                            !.global = <<>>]])

DiscoveredNext ==
    \/ Registry_initialize
    \/ Registry_cleanup
    \/ \E now \in Nows :
          /\ registry.isInitialized
          /\ Registry_handlePresence(<<65, 108, 105, 99, 101>>, now)
    \/ \E now \in Nows :
          /\ registry.isInitialized
          /\ Registry_handlePresenceSync(<<65, 108, 105, 99, 101>>, now)
    \/ \E now \in Nows :
          /\ registry.isInitialized
          /\ Registry_handlePresenceLeave(now)
    \/ \E now \in SweepTimes :
          /\ registry.isInitialized
          /\ Registry_checkPeerStatus(now)

SpecDiscovered == PipelineInit /\ [][DiscoveredNext]_vars

\* C24: shouldRelay(packet, localId) is true exactly when packet.ttl > 0,
\* packet.originalSenderId is not localId, localId is no element of
\* packet.hops and packet.targetId is not localId.
C24_RelayIff ==
    relayArgs # [null |-> TRUE] =>
        LET packet == relayArgs.packet
            localId == relayArgs.localDeviceId
        IN  relayResult <=>
                /\ packet.ttl > 0
                /\ packet.originalSenderId # localId
                /\ localId \notin {packet.hops[i] : i \in DOMAIN packet.hops}
                /\ packet.targetId # localId

\* C24 witness: a call for a packet with ttl 1 that has gone through two
\* other devices and is addressed to everyone returned true.
C24_Witness ==
    /\ relayArgs # [null |-> TRUE]
    /\ relayArgs.packet.ttl = 1
    /\ relayArgs.packet.hops = <<"A", "C">>
    /\ relayArgs.packet.targetId = "*"
    /\ relayArgs.localDeviceId = "B"
    /\ relayResult

\* C14 as stated: when the receiver's ACK arrives for a message that lies in
\* the durable pending queue, handleAck removes its pending record (and so it
\* cannot run on to failed).
C14_Claim ==
    [][\A id \in DOMAIN pendingMessages :
          (id \notin acked /\ id \in acked') =>
              id \notin DOMAIN pendingMessages']_vars

\* C16 as stated: the message a transport transmits carries the id that
\* sendMessage returns: every id the receiver's onMessageReceived gets, every
\* acknowledged id and every row this device inserts in the relay table is
\* the id of a send that a transport accepted.
C16_Claim ==
    /\ \A i \in DOMAIN remoteReceived : remoteReceived[i] \in handed
    /\ acked \subseteq handed
    /\ \A i \in DOMAIN mesh_messages :
          mesh_messages[i].from = Local => mesh_messages[i].id \in handed

\* C17: a MESSAGE that arrives with ttl = 0, passes verifyPacket and the
\* duplicate check and is for this device or for everyone is delivered here
\* (onMessageReceived once its notification is shown, and one ACK built),
\* and no packet with ttl = 0 is passed on: none is given to prepareForRelay
\* and no relay copy has a ttl below 0.
C17_ExhaustedDeliveredNotRelayed ==
    /\ \A link \in Exhausted("B") :
          LET q == link.packet
          IN  (SeenHas(processedPackets["B"], q.id) /\ ForUs("B", q)) =>
                  \/ \E t \in BagToSet(tasks["B"]) :
                        t.kind = "showMessageNotification" /\ t.orig = q
                  \/ /\ Deliveries("B", q.id) = 1
                     /\ Cardinality(AcksFor("B", q.id)) = 1
    /\ \A n \in Nodes : \A i \in DOMAIN relayed[n] :
          relayed[n][i].of.ttl > 0 /\ relayed[n][i].as.ttl >= 0

\* C17 witness: B has delivered and acknowledged the ttl-0 message addressed
\* to it and the ttl-0 message for everyone, has admitted the ttl-0 message
\* for a third device, has a neighbour besides the one they came from, and
\* has relayed nothing.
C17_Witness ==
    /\ \A link \in Exhausted("B") :
          /\ verifyPacket(link.packet)
          /\ link.packet.ttl = 0
          /\ SeenHas(processedPackets["B"], link.packet.id)
          /\ ForUs("B", link.packet) =>
                 /\ Deliveries("B", link.packet.id) = 1
                 /\ Cardinality(AcksFor("B", link.packet.id)) = 1
    /\ tasks["B"] = EmptyBag
    /\ Len(peers["B"]) = 2
    /\ relayed["B"] = <<>>

\* C18 as stated: in a line of eleven devices where the first builds a packet
\* for the last, the last emits onMessageReceived when the packet starts with
\* ttl 10 (once nothing is in flight any more), and does not when it starts
\* with ttl 9.
C18_Claim ==
    (lineSent # <<>> /\ lineSent.targetId = LineNodes[Len(LineNodes)]) =>
        /\ (lineSent.ttl = 10 /\ lineNet = {}) =>
               Len(LineNodes) \in lineReceived
        /\ lineSent.ttl = 9 => Len(LineNodes) \notin lineReceived

\* C19: when a device takes a packet whose signature does not match the
\* digest of its other fields, nothing else happens: processedPackets,
\* pendingAcks (and the retry counts and the queue), the device registry and
\* the emitted events stay as they were, no ACK and no relay copy is built,
\* no handler is left suspended and nothing is sent.
C19_ForgedDropped ==
    [][\A link \in net \ net' :
          hashPacket(WithoutSignature(link.packet)) # link.packet.signature =>
              /\ UNCHANGED <<processedPackets, pendingAcks, pendingRetries,
                             messageQueue, discoveredDevices,
                             onMessageReceived, onMessageStatusChanged, acks,
                             relayed, tasks>>
              /\ net' \subseteq net]_vars

\* C19 witness: B waits for the ACK of the message it sent, and has dropped
\* the forged message, the forged ACK naming that message and the forged
\* announcement (which shouldRelay would pass on), all for their signature.
C19_Witness ==
    /\ sent # <<>>
    /\ MapHas(pendingAcks["B"], sent[1].id)
    /\ \A link \in Forged("B") : <<link.packet, "signature">> \in dropped["B"]
    /\ \E link \in Forged("B") :
          link.packet.type = "ACK" /\ link.packet.payload = sent[1].id
    /\ \E link \in Forged("B") :
          link.packet.type = "ANNOUNCE" /\ shouldRelay(link.packet, "B")
\* C21 as stated: once cleanup() has returned, pendingAcks is empty and no
\* retry timer is armed, also when cleanup() ran while sendMessage or a retry
\* callback was suspended in broadcastPacket.
C21_Claim ==
    ~heartbeatInterval["B"] => pendingAcks["B"] = <<>>

\* C22 as stated: an initialize() during which the identity store could not
\* be read or written does not complete with a device id.
C22_Claim ==
    identityErrors = {}

\* C23 as stated: a packet whose serialized size is more than
\* MAX_MESSAGE_SIZE bytes is not added to processedPackets, not delivered,
\* not acknowledged and not relayed by the device that receives it.
C23_Claim ==
    \A link \in Oversize("B") :
        Len(encodePacket(link.packet)) > MAX_MESSAGE_SIZE =>
            /\ ~SeenHas(processedPackets["B"], link.packet.id)
            /\ Deliveries("B", link.packet.id) = 0
            /\ AcksFor("B", link.packet.id) = {}
            /\ Relays("B", link.packet.id) = 0

\* C25: every relay copy q that a device N hands to a connection was built
\* from a received packet p with q.ttl = p.ttl - 1, q.hops = p.hops followed
\* by N, N not in p.hops, q.ttl >= 0, q.senderId = N, and the id, type,
\* originalSenderId, targetId, payload and timestamp of p.
C25_RelayCopy ==
    /\ \A i \in DOMAIN relayed["B"] :
          LET p == relayed["B"][i].of
              q == relayed["B"][i].as
          IN  /\ q.ttl = p.ttl - 1
              /\ q.hops = p.hops \o <<"B">>
              /\ "B" \notin {p.hops[k] : k \in DOMAIN p.hops}
              /\ q.ttl >= 0
              /\ q.senderId = "B"
              /\ q.id = p.id /\ q.type = p.type
              /\ q.originalSenderId = p.originalSenderId
              /\ q.targetId = p.targetId
              /\ q.payload = p.payload /\ q.timestamp = p.timestamp
    /\ \A link \in net :
          (link.from = "B" /\ link.packet.originalSenderId # "B") =>
              \E i \in DOMAIN relayed["B"] :
                  relayed["B"][i].as = link.packet

\* C25 witness: B has handed to C's connection the relay copy, with ttl 0, of
\* the packet that arrived with ttl 1 for C, and has relayed the packet for
\* everyone as well.
C25_Witness ==
    /\ \E link \in net :
          /\ link.from = "B" /\ link.to = "C"
          /\ link.packet.ttl = 0
          /\ link.packet.hops = <<"A", "B">>
          /\ link.packet.targetId = "C"
    /\ \E i \in DOMAIN relayed["B"] : relayed["B"][i].of.targetId = "*"

C27_Claim ==
    \A arrival \in Travelled("B") : \A link \in net :
        (link.from = "B" /\ link.packet = prepareForRelay(arrival.packet, "B"))
            => link.to # arrival.from

\* C28 as stated: the insert that takes processedPackets above 2000 ids
\* compacts it, so after any completed insert processedPackets holds at most
\* 2000 ids.
C28_Claim == SeenSize(processedPackets["B"]) <= ProcessedHigh

C30_Claim ==
    \A by \in DOMAIN registry.merged :
        LET existing == registry.merged[by].existing
            device == registry.merged[by].device
        IN  (~Generic(existing.name) /\ Generic(device.name))
                => registry.merged[by].merged.name = existing.name

\* C31 as stated: a timeout sweep never deletes a device record; for a device
\* past the hard timeout it emits onDeviceLost and the record stays in the
\* registry with isOnline = false.
C31_Claim ==
    \A by \in DOMAIN registry.swept :
        \A id \in DOMAIN registry.swept[by].before :
            /\ id \in DOMAIN registry.swept[by].after
            /\ id \in registry.swept[by].lost
                  => ~Truthy(registry.swept[by].after[id], "isOnline")

\* C32: after any sequence of recordSuccess and recordFailure calls the
\* reliability of each transport is within 0..100; a success sets it to
\* min(100, old + 5) and a failure to max(0, old - 10).
C32_Reliability ==
    /\ \A i \in DOMAIN TransportTypes :
          metrics[TransportTypes[i]].reliability \in 0..100
    /\ \A fn \in DOMAIN recorded.last :
          LET call == recorded.last[fn]
              old == call.old[call.type].reliability
          IN  call.new[call.type].reliability
                  = IF fn = "recordSuccess" THEN Min(100, old + 5)
                    ELSE Max(0, old - 10)

\* C32 witness: a success found a reliability of 100 and a failure found one
\* of 5.
C32_Witness ==
    /\ DOMAIN recorded.last = {"recordSuccess", "recordFailure"}
    /\ LET success == recorded.last["recordSuccess"]
           failure == recorded.last["recordFailure"]
       IN  /\ success.old[success.type].reliability = 100
           /\ failure.old[failure.type].reliability = 5
           /\ metrics[success.type].reliability = 100
           /\ metrics[failure.type].reliability = 0

\* C33 as stated: selectTransportForPeer returns only transports marked
\* available, a primary and at most two fallbacks without repetition, in
\* non-increasing order of the score of the specification, which adds 30 for
\* a last success under 60 s old and adds 15 for one under 300 s old.
C33_Claim ==
    \A peerId \in DOMAIN recorded.decision :
        LET call == recorded.decision[peerId]
            decision == call.result
            list == IF decision.primary = "unknown" THEN <<>>
                    ELSE <<decision.primary>> \o decision.fallbacks
            peerSupports == IF peerId \in DOMAIN call.peerTransports
                            THEN call.peerTransports[peerId] ELSE <<>>
            score(t) ==
                call.metrics[t].reliability
                + Max(0, 50 - call.metrics[t].latency \div 10)
                + (IF Includes(peerSupports, t) THEN 50 ELSE 0)
                + (IF call.metrics[t].lastSuccess = "recent" THEN 30 ELSE 0)
                + (IF call.metrics[t].lastSuccess \in {"recent", "aging"}
                   THEN 15 ELSE 0)
                - 10 * call.metrics[t].failureCount
                + Min(20, 2 * call.metrics[t].deviceCount)
                + (CASE t = "webrtc" -> 20 [] t = "wifi" -> 15
                     [] t = "bluetooth" -> 10 [] OTHER -> 5)
        IN  /\ \A i \in DOMAIN list : call.metrics[list[i]].isAvailable
            /\ Len(list) <= 3
            /\ \A i, j \in DOMAIN list : i # j => list[i] # list[j]
            /\ \A i, j \in DOMAIN list :
                  i < j => score(list[i]) >= score(list[j])

\* C34: an instance announces from handlePresence only for a peer that was
\* not in its discoveredDevices, and the exchange of announcements between
\* instances that discover each other stops: once the intervals announce no
\* more, every PRESENCE message posted has been handled and none is posted.
C34_Stops ==
    /\ [](\A n \in DOMAIN presence.responded :
             presence.responded[n].isNew)
    /\ <>[](\A pair \in DOMAIN presence.posted :
               presence.posted[pair] = 0)

\* C34 witness: A and B have each announced from handlePresence for the
\* other, know each other, and nothing is left to handle.
C34_Witness ==
    /\ DOMAIN presence.responded = {"A", "B"}
    /\ presence.discoveredDevices["A"] = {"B"}
    /\ presence.discoveredDevices["B"] = {"A"}
    /\ \A pair \in DOMAIN presence.posted : presence.posted[pair] = 0

\* C37: every scan that startScanning begins eventually ends: isScanning
\* becomes false with onScanStateChanged(false), also when cleanup is called
\* during the scan.
C37_ScanEnds ==
    scan.isScanning ~> (~scan.isScanning /\ scan.emitted = <<FALSE>>)

\* C35: of two MESSAGE packets of one device, the one whose sendMessage
\* was called first is sent to each peer before the other is sent to that
\* peer.
C35_Order ==
    \A i, j \in DOMAIN emission.sends :
        /\ emission.sends[i][2] = emission.sends[j][2]
        /\ emission.sends[i][1] < emission.sends[j][1]
        => i < j

C38_Claim ==
    [][\A i \in DOMAIN sent : \A m \in Nodes :
          \A j \in AcksFor(m, sent[i].id) :
              LET n == sent[i].senderId
                  id == sent[i].id
              IN  (/\ ~SeenHas(processedPackets[n], acks[m][j].id)
                   /\ SeenHas(processedPackets'[n], acks[m][j].id)
                   /\ \E t \in BagToSet(tasks[n]) :
                         t.kind = "sendMessage" /\ t.packet.id = id)
                  => \E k \in DOMAIN onMessageStatusChanged'[n] :
                        onMessageStatusChanged'[n][k] = <<id, "delivered">>
      ]_vars

\* C39: updateMessageStatus changes only the status of the stored message:
\* when its save is made, the synced flag and the receiver of the record
\* are what they were.
C39_Claim ==
    [][(/\ Ready("messages", "updateMessageStatus")
        /\ idb'["messages"] = Tail(idb["messages"])
        /\ Head(idb["messages"]).id \in DOMAIN messages)
       => LET id == Head(idb["messages"]).id
          IN  /\ id \in DOMAIN messages'
              /\ messages'[id].synced = messages[id].synced
              /\ messages'[id].to = messages[id].to
      ]_vars

====
